---- MODULE Spec2Model ----
(***************************************************************************)
(* The CandyShop benchmark pipeline (candyshop-benchmark/scripts):         *)
(*   normalize-results.py  raw tool output  -> normalized findings CSV     *)
(*   triage-consensus.py   findings + ground truth -> <target>-auto.csv    *)
(*   calculate-fmeasure.py triage CSVs + ground truth -> metrics rows      *)
(*                                                                         *)
(* Strings whose inner structure the code inspects (CWE identifiers,       *)
(* locations, the "tools" column) are sequences of tokens: a token is a    *)
(* maximal run of characters that contains none of the separators the code *)
(* looks for, and each separator ("/", ":", "?", "#", ",", "|", " ") is a  *)
(* token of its own.  Two strings are equal iff their token sequences are. *)
(* Strings that are only compared, looked up or case-folded (tool names,   *)
(* targets, severities, verdicts) are TLA+ strings.                        *)
(***************************************************************************)
EXTENDS Integers, Sequences, FiniteSets, TLC

VARIABLES
    pc,            \* position of the run in the scripts
    raw_output,    \* the tool-output files: a sequence of raw tool records
    gt_files,      \* ground-truth directory: target -> rows of <target>.csv
    csv_rows,      \* normalized-all.csv as written by normalize-results.py
    findings,      \* triage-consensus: load_normalized's list
    gt_entries,    \* triage-consensus: load_ground_truth's list
    groups,        \* triage-consensus: group_findings' dict
    results,       \* triage-consensus: triage_groups' list
    triage_dir,    \* the triage directory: file stem -> rows
    stats,         \* write_triage_files' return value
    triage_exit,   \* exit status of triage-consensus.py ("none" while running)
    triage_data,   \* calculate-fmeasure: load_triage_files' dict
    ground_truth,  \* calculate-fmeasure: load_ground_truth's dict
    tool_findings, \* calculate-fmeasure: extract_tool_findings' dict
    fmeasure,      \* calculate-fmeasure: calculate_fmeasure's rows
    metrics_exit,  \* exit status of calculate-fmeasure.py
    normalize_exit, \* exit status of normalize-results.py
    cwe_coverage,  \* calculate-fmeasure: calculate_cwe_coverage's rows
    scorecard,     \* calculate-fmeasure: calculate_scorecard's rows
    main_gt_index, \* triage-consensus main: build_gt_index's defaultdict
    raw_findings,  \* validate.py: load_scan_results' list
    deduped        \* validate.py: deduplicate_findings' list

vars == <<pc, raw_output, gt_files, csv_rows, findings, gt_entries, groups,
          results, triage_dir, stats, triage_exit, triage_data, ground_truth,
          tool_findings, fmeasure, metrics_exit, normalize_exit, cwe_coverage,
          scorecard, main_gt_index,
          raw_findings, deduped>>

-----------------------------------------------------------------------------
(* Bounds of the model *)

MaxFindings == 2

MaxClusterFindings == 3

MaxGT == 2

MaxFinalRows == 2

\* Findings per run where finding ids are counted.
MaxIdFindings == 3

\* Scan findings per run of validate.py.
MaxRawFindings == 2

-----------------------------------------------------------------------------
(* Generic helpers *)

Range(s) == {s[i] : i \in DOMAIN s}

SeqUpTo(S, n) == UNION {[1..k -> S] : k \in 0..n}

Min(S) == CHOOSE x \in S : \A y \in S : x <= y

EmptyMap == [x \in {} |-> x]

RECURSIVE Flatten(_)
Flatten(ss) == IF ss = <<>> THEN <<>> ELSE Head(ss) \o Flatten(Tail(ss))

-----------------------------------------------------------------------------
(* Python's str methods on the two string representations *)

\* Lower-case, capitalised and upper-case spelling of every cased word that
\* occurs as a whole string or as a token; any other text has no cased letters.
CaseForms ==
    { <<"critical", "Critical", "CRITICAL">>, <<"high", "High", "HIGH">>,
      <<"medium", "Medium", "MEDIUM">>, <<"low", "Low", "LOW">>,
      <<"info", "Info", "INFO">>, <<"warning", "Warning", "WARNING">>,
      <<"error", "Error", "ERROR">>, <<"negligible", "Negligible", "NEGLIGIBLE">>,
      <<"unknown", "Unknown", "UNKNOWN">>, <<"bogus", "Bogus", "BOGUS">>,
      <<"tp", "Tp", "TP">>, <<"fp", "Fp", "FP">>,
      <<"pending", "Pending", "PENDING">>,
      <<"cwe-", "Cwe-", "CWE-">>, <<"none", "None", "NONE">>,
      <<"abc", "Abc", "ABC">>, <<"title", "Title", "TITLE">>,
      <<"bandit", "Bandit", "BANDIT">>, <<"checkov", "Checkov", "CHECKOV">>,
      <<"npm", "Npm", "NPM">>, <<"audit", "Audit", "AUDIT">>,
      <<"juice", "Juice", "JUICE">>, <<"shop", "Shop", "SHOP">>,
      <<"vulnpy", "Vulnpy", "VULNPY">>, <<"trivy", "Trivy", "TRIVY">>,
      <<"grype", "Grype", "GRYPE">>, <<"bearer", "Bearer", "BEARER">>,
      <<"nodejsscan", "Nodejsscan", "NODEJSSCAN">>, <<"zap", "Zap", "ZAP">>,
      <<"nuclei", "Nuclei", "NUCLEI">>, <<"pip", "Pip", "PIP">>,
      <<"dep", "Dep", "DEP">>, <<"check", "Check", "CHECK">>,
      <<"broken", "Broken", "BROKEN">>, <<"crystals", "Crystals", "CRYSTALS">>,
      <<"altoro", "Altoro", "ALTORO">>, <<"mutual", "Mutual", "MUTUAL">>,
      <<"dvwa", "Dvwa", "DVWA">>, <<"webgoat", "Webgoat", "WEBGOAT">> }

Lower(s) ==
    IF \E t \in CaseForms : s \in Range(t)
    THEN (CHOOSE t \in CaseForms : s \in Range(t))[1]
    ELSE s

Upper(s) ==
    IF \E t \in CaseForms : s \in Range(t)
    THEN (CHOOSE t \in CaseForms : s \in Range(t))[3]
    ELSE s

LowerToks(s) == [i \in DOMAIN s |-> Lower(s[i])]

UpperToks(s) == [i \in DOMAIN s |-> Upper(s[i])]

DigitTokens == {"0", "1", "2", "3", "5", "10", "42", "50", "79", "89", "3000"}

\* str.isdigit(): non-empty and every character a digit.
IsDigit(s) == s # <<>> /\ \A i \in DOMAIN s : s[i] \in DigitTokens

RECURSIVE LStrip(_)
LStrip(s) == IF s # <<>> /\ Head(s) = " " THEN LStrip(Tail(s)) ELSE s

RECURSIVE RStrip(_)
RStrip(s) ==
    IF s # <<>> /\ s[Len(s)] = " " THEN RStrip(SubSeq(s, 1, Len(s) - 1)) ELSE s

\* str.strip()
Strip(s) == RStrip(LStrip(s))

StartsWith(s, tok) == s # <<>> /\ Head(s) = tok

RECURSIVE Split(_, _)
\* str.split(sep): the parts between the occurrences of sep.
Split(s, sep) ==
    IF \A i \in DOMAIN s : s[i] # sep THEN <<s>>
    ELSE LET k == Min({i \in DOMAIN s : s[i] = sep})
         IN <<SubSeq(s, 1, k - 1)>> \o Split(SubSeq(s, k + 1, Len(s)), sep)

RECURSIVE Join(_, _)
\* sep.join(parts)
Join(parts, sep) ==
    IF parts = <<>> THEN <<>>
    ELSE IF Len(parts) = 1 THEN parts[1]
    ELSE parts[1] \o <<sep>> \o Join(Tail(parts), sep)

\* os.path.basename: what follows the last "/".
Basename(s) ==
    IF \A i \in DOMAIN s : s[i] # "/" THEN s
    ELSE LET k == CHOOSE i \in DOMAIN s :
                      s[i] = "/" /\ \A j \in DOMAIN s : s[j] = "/" => j <= i
         IN SubSeq(s, k + 1, Len(s))

IsUrl(loc) == StartsWith(loc, "http://") \/ StartsWith(loc, "https://")

\* urlparse(loc).path of an http(s) URL: after the scheme and the network
\* location (which runs up to the first "/", "?" or "#"), up to the first
\* "?" or "#".
UrlPath(loc) ==
    LET rest == Tail(loc)
        stops == {i \in DOMAIN rest : rest[i] \in {"/", "?", "#"}}
        afterNet == IF stops = {} THEN <<>>
                    ELSE SubSeq(rest, Min(stops), Len(rest))
        ends == {i \in DOMAIN afterNet : afterNet[i] \in {"?", "#"}}
    IN IF ends = {} THEN afterNet ELSE SubSeq(afterNet, 1, Min(ends) - 1)

-----------------------------------------------------------------------------
(* normalize-results.py: severity tables and adapters *)

TRIVY_SEVERITY ==
    ("CRITICAL" :> "CRITICAL") @@ ("HIGH" :> "HIGH") @@ ("MEDIUM" :> "MEDIUM")
    @@ ("LOW" :> "LOW") @@ ("UNKNOWN" :> "INFO")

GRYPE_SEVERITY ==
    ("Critical" :> "CRITICAL") @@ ("High" :> "HIGH") @@ ("Medium" :> "MEDIUM")
    @@ ("Low" :> "LOW") @@ ("Negligible" :> "INFO")

NODEJSSCAN_SEVERITY ==
    ("ERROR" :> "HIGH") @@ ("WARNING" :> "MEDIUM") @@ ("INFO" :> "LOW")

ZAP_RISK ==
    ("3" :> "HIGH") @@ ("2" :> "MEDIUM") @@ ("1" :> "LOW") @@ ("0" :> "INFO")

STANDARD_SEVERITY ==
    ("critical" :> "CRITICAL") @@ ("high" :> "HIGH") @@ ("medium" :> "MEDIUM")
    @@ ("low" :> "LOW") @@ ("info" :> "INFO") @@ ("warning" :> "MEDIUM")
    @@ ("error" :> "HIGH")

\* mapping=None
NO_MAPPING == EmptyMap

SeverityLevels == {"CRITICAL", "HIGH", "MEDIUM", "LOW", "INFO"}

\* The mapping each parse_* passes to normalize_severity.
ToolMapping(tool) ==
    CASE tool = "trivy" -> TRIVY_SEVERITY
      [] tool = "grype" -> GRYPE_SEVERITY
      [] tool = "nodejsscan" -> NODEJSSCAN_SEVERITY
      [] tool = "zap" -> ZAP_RISK
      [] OTHER -> NO_MAPPING

normalize_severity_unchecked(raw, mapping) ==
    IF raw = "" THEN "INFO"
    ELSE IF raw \in DOMAIN mapping THEN mapping[raw]
    ELSE IF Lower(raw) \in DOMAIN STANDARD_SEVERITY
         THEN STANDARD_SEVERITY[Lower(raw)]
    ELSE raw

\* A severity that is a JSON number (7) instead of a string.
NumberSeverity == "<number 7>"

\* raw.lower() on a value that is not a str.
AttributeError == "<AttributeError>"

normalize_severity(raw, mapping) ==
    IF raw = "" THEN "INFO"
    ELSE IF raw \in DOMAIN mapping THEN mapping[raw]
    ELSE IF raw = NumberSeverity THEN AttributeError
    ELSE IF Lower(raw) \in DOMAIN STANDARD_SEVERITY
         THEN STANDARD_SEVERITY[Lower(raw)]
    ELSE IF Upper(raw) \in SeverityLevels THEN Upper(raw)
    ELSE "INFO"

\* Python's None where a tool record carries a null CWE id.
NoneVal == <<"<None>">>

\* str(x)
Str(x) == IF x = NoneVal THEN <<"None">> ELSE x

Truthy(x) == x # NoneVal /\ x # <<>>

\* The "cwe" column each adapter emits.  r.cwes is the tool's list of CWE ids
\* (bandit's issue_cwe.id and zap's cweid are a list of at most one id).
ParserCwe(r) ==
    LET first == IF r.cwes = <<>> THEN <<>> ELSE r.cwes[1]
    IN CASE r.tool = "trivy" -> first
         [] r.tool = "grype" ->
              IF r.cwes = <<>> THEN <<>>
              ELSE IF Truthy(first) /\ ~StartsWith(Str(first), "CWE-")
                   THEN <<"CWE-">> \o Str(first)
                   ELSE Str(first)
         [] r.tool = "bandit" ->
              IF Truthy(first) THEN <<"CWE-">> \o Str(first) ELSE <<>>
         [] r.tool = "zap" ->
              IF Truthy(first) /\ Str(first) # <<"0">> /\ Str(first) # <<"-1">>
              THEN <<"CWE-">> \o Str(first) ELSE <<>>
         [] r.tool \in {"bearer", "nuclei"} ->
              IF Truthy(first) /\ ~StartsWith(Str(first), "CWE-")
              THEN <<"CWE-">> \o Str(first)
              ELSE IF first = NoneVal THEN <<>> ELSE first
         [] r.tool = "npm-audit" -> IF first = NoneVal THEN <<>> ELSE first
         [] r.tool = "dep-check" ->
              IF r.cwes = <<>> \/ first = NoneVal THEN <<>>
              ELSE IF StartsWith(first, "CWE-") THEN first
              ELSE <<"CWE-">> \o first
         [] r.tool \in {"pip-audit", "checkov"} -> <<>>
         [] OTHER -> <<>>

\* The "location" column: filename[:line] for the SAST tools, the first
\* instance URI for zap, the package for the container tools.
ParserLocation(r) ==
    IF r.tool \in {"bandit", "nodejsscan", "bearer"}
    THEN IF r.file # <<>> /\ r.line # <<>>
         THEN r.file \o <<":">> \o r.line ELSE r.file
    ELSE r.file

\* parse_zap's str(alert.get("riskcode", ...)).
RiskStr(x) == IF x = NumberSeverity THEN "7" ELSE x

\* The "severity" column: parse_pip_audit and parse_checkov write the
\* literal "MEDIUM", every other adapter calls normalize_severity.
ParserSeverity(r) ==
    IF r.tool \in {"pip-audit", "checkov"} THEN "MEDIUM"
    ELSE normalize_severity(
             IF r.tool = "zap" THEN RiskStr(r.severity) ELSE r.severity,
             ToolMapping(r.tool))

\* The "target" column: the target of the file, and for checkov the known
\* target named in the check's file_path (r.target, "" when there is none).
ParserTarget(r) ==
    IF r.tool = "checkov" /\ r.target = "" THEN "unknown" ELSE r.target

ParseRecord(r) ==
    [tool |-> r.tool, target |-> ParserTarget(r), cwe |-> ParserCwe(r),
     severity |-> ParserSeverity(r),
     location |-> ParserLocation(r), raw_id |-> r.raw_id]

\* The list a parse_* returns for one file.  A file is unparseable JSON
\* (load_json gives None), a top-level JSON list, or the object the tool
\* writes, here with one record.
ParseFile(r) ==
    IF r.shape = "unparseable" THEN <<>>
    ELSE IF r.shape = "list" THEN <<>>
    ELSE <<ParseRecord(r)>>

\* The parse_* call on the file ends in an uncaught exception: data.get on a
\* list (parse_zap tests membership only), or raw.lower() on a number.
FileRaises(r) ==
    \/ r.shape = "list" /\ r.tool # "zap"
    \/ r.shape = "object" /\ ParseRecord(r).severity = AttributeError

\* The words of a tool or target name and the hyphens between them.
NameToks(name) ==
    CASE name = "npm-audit" -> <<"npm", "-", "audit">>
      [] name = "pip-audit" -> <<"pip", "-", "audit">>
      [] name = "dep-check" -> <<"dep", "-", "check">>
      [] name = "juice-shop" -> <<"juice", "-", "shop">>
      [] name = "broken-crystals" -> <<"broken", "-", "crystals">>
      [] name = "altoro-mutual" -> <<"altoro", "-", "mutual">>
      [] OTHER -> <<name>>

DecimalDigits == <<"0", "1", "2", "3", "4", "5", "6", "7", "8", "9">>

RECURSIVE DecimalToks(_)
\* str(n) of a natural number, one token per digit
DecimalToks(n) ==
    IF n < 10 THEN <<DecimalDigits[n + 1]>>
    ELSE DecimalToks(n \div 10) \o <<DecimalDigits[(n % 10) + 1]>>

RECURSIVE ZeroPad(_, _)
ZeroPad(toks, width) ==
    IF Len(toks) >= width THEN toks ELSE ZeroPad(<<"0">> \o toks, width)

\* f"{counter:03d}"
Format03d(counter) == ZeroPad(DecimalToks(counter), 3)

make_finding_id(tool, target, counter) ==
    LET tool_part == SelectSeq(UpperToks(NameToks(tool)), LAMBDA t : t # "-")
        target_part == UpperToks(NameToks(target))
    IN tool_part \o <<"-">> \o target_part \o <<"-">> \o Format03d(counter)

\* all_findings: every discovered file parsed, in discovery order.
AllFindings(raw) == Flatten([i \in DOMAIN raw |-> ParseFile(raw[i])])

CounterPerTool(all, i) == Cardinality({j \in 1..i : all[j].tool = all[i].tool})

\* counters[key] when finding i gets its id: the findings up to i that have
\* its (tool, target).
Counter(all, i) ==
    Cardinality({j \in 1..i :
                    all[j].tool = all[i].tool /\ all[j].target = all[i].target})

\* main: the findings of every file, each with its finding_id, written as
\* the rows of the normalized CSV.
NormalizeResults(raw) ==
    LET all == AllFindings(raw)
    IN [i \in DOMAIN all |->
           [finding_id |-> make_finding_id(all[i].tool, all[i].target,
                                           Counter(all, i)),
            tool |-> all[i].tool, target |-> all[i].target, cwe |-> all[i].cwe,
            severity |-> all[i].severity, location |-> all[i].location,
            raw_id |-> all[i].raw_id]]

-----------------------------------------------------------------------------
(* triage-consensus.py: helpers *)

SEVERITY_ORDER ==
    ("critical" :> 4) @@ ("high" :> 3) @@ ("medium" :> 2) @@ ("low" :> 1)
    @@ ("info" :> 0)

severity_rank(sev) ==
    IF Lower(sev) \in DOMAIN SEVERITY_ORDER THEN SEVERITY_ORDER[Lower(sev)]
    ELSE -1

first_severity(severities) ==
    IF severities = <<>> THEN "unknown" ELSE severities[1]

\* max(severities, key=severity_rank, default="unknown"): the first element
\* of highest rank.
highest_severity(severities) ==
    IF severities = <<>> THEN "unknown"
    ELSE LET top == CHOOSE i \in DOMAIN severities :
                 /\ \A j \in DOMAIN severities :
                        severity_rank(severities[j]) <= severity_rank(severities[i])
                 /\ \A j \in 1..(i - 1) :
                        severity_rank(severities[j]) < severity_rank(severities[i])
             best == severities[top]
         IN IF severity_rank(best) >= 0 THEN best ELSE "unknown"

extract_basename(location) ==
    IF location = <<>> THEN <<>>
    ELSE LET loc0 == Strip(location)
             loc1 == IF IsUrl(loc0) THEN UrlPath(loc0) ELSE loc0
             parts == Split(loc1, ":")
             n == Len(parts)
             loc2 == IF n > 1 /\ IsDigit(parts[n])
                     THEN IF n > 2 /\ IsDigit(parts[n - 1])
                          THEN Join(SubSeq(parts, 1, n - 2), ":")
                          ELSE parts[1]
                     ELSE loc1
         IN IF loc2 # <<>> THEN Basename(loc2) ELSE <<>>

extract_url_path(location) ==
    IF location = <<>> THEN <<>>
    ELSE LET loc == Strip(location)
         IN IF IsUrl(loc) THEN UrlPath(loc) ELSE <<>>

locations_match(loc_a, loc_b) ==
    IF loc_a = <<>> \/ loc_b = <<>> THEN FALSE
    ELSE LET url_a == extract_url_path(loc_a)
             url_b == extract_url_path(loc_b)
             base_a == extract_basename(loc_a)
             base_b == extract_basename(loc_b)
         IN IF url_a # <<>> /\ url_b # <<>> THEN url_a = url_b
            ELSE IF base_a # <<>> /\ base_b # <<>> THEN base_a = base_b
            ELSE FALSE

normalize_cwe(cwe_str) ==
    IF cwe_str = <<>> THEN <<>>
    ELSE LET cwe == UpperToks(Strip(cwe_str))
         IN IF StartsWith(cwe, "CWE-") THEN cwe
            ELSE IF IsDigit(cwe) THEN <<"CWE-">> \o cwe
            ELSE cwe

-----------------------------------------------------------------------------
(* triage-consensus.py: data loading *)

\* One row of the normalized CSV as load_normalized keeps it.  id is the
\* row's position in the file: it tells apart two dicts with equal fields.
LoadRow(row, i) ==
    [id |-> i,
     tool |-> row.tool,
     target |-> row.target,
     cwe |-> normalize_cwe(row.cwe),
     severity |-> Lower(IF row.severity = "" THEN "unknown" ELSE row.severity),
     location |-> Strip(row.location),
     raw_id |-> row.raw_id]

load_normalized(rows) == [i \in DOMAIN rows |-> LoadRow(rows[i], i)]

\* Python's order of the strings that occur as targets or tool names, and
\* of the tokens that occur in a normalised CWE.
Collation ==
    <<" ", "-1", "0", "79", "89", ":", "<None>", "ABC", "CWE-", "NONE", "TITLE", "_",
      "altoro-mutual", "bandit", "bearer", "checkov", "dep-check", "dvwa",
      "grype", "juice-shop", "nodejsscan", "npm-audit", "nuclei", "pip-audit",
      "trivy", "unknown", "vulnpy", "x", "zap">>

Rank(tok) == CHOOSE i \in DOMAIN Collation : Collation[i] = tok

\* a < b for token sequences
RECURSIVE ToksLess(_, _)
ToksLess(a, b) ==
    IF b = <<>> THEN FALSE
    ELSE IF a = <<>> THEN TRUE
    ELSE IF Head(a) = Head(b) THEN ToksLess(Tail(a), Tail(b))
    ELSE Rank(Head(a)) < Rank(Head(b))

StrLess(a, b) == Rank(a) < Rank(b)

\* sorted(os.listdir(gt_dir)): the targets that have a ground-truth file.
RECURSIVE SortStrings(_)
SortStrings(S) ==
    IF S = {} THEN <<>>
    ELSE LET m == CHOOSE x \in S : \A y \in S \ {x} : StrLess(x, y)
         IN <<m>> \o SortStrings(S \ {m})

GtRow(target, row) ==
    [target |-> target, cwe |-> normalize_cwe(row.cwe), location |-> Strip(row.location)]

load_ground_truth(files) ==
    LET names == SortStrings(DOMAIN files)
    IN Flatten([k \in DOMAIN names |->
                   [j \in DOMAIN files[names[k]] |->
                       GtRow(names[k], files[names[k]][j])]])

-----------------------------------------------------------------------------
(* triage-consensus.py: grouping *)

bucket_key_target_only(f) == <<f.target, <<>>>>

\* First pass: the (target, cwe) bucket of a finding.
bucket_key(f) == <<f.target, f.cwe>>

Bucket(fs, key) == SelectSeq(fs, LAMBDA f : bucket_key(f) = key)

RECURSIVE ClusterBucket(_, _)
\* Second pass: each finding joins the first cluster that holds a member
\* whose location matches, else it starts a cluster.
ClusterBucket(bucket, clusters) ==
    IF bucket = <<>> THEN clusters
    ELSE LET f == Head(bucket)
             hits == {i \in DOMAIN clusters :
                         \E j \in DOMAIN clusters[i] :
                             locations_match(f.location, clusters[i][j].location)}
         IN IF hits = {}
            THEN ClusterBucket(Tail(bucket), Append(clusters, <<f>>))
            ELSE ClusterBucket(Tail(bucket),
                               [clusters EXCEPT ![Min(hits)] = Append(@, f)])

group_findings_located(fs) ==
    LET located == SelectSeq(fs, LAMBDA f : f.location # <<>>)
        bkeys == {bucket_key(located[i]) : i \in DOMAIN located}
        clusters(k) == ClusterBucket(Bucket(located, k), <<>>)
        gkeys == UNION {{<<k[1], k[2], i - 1>> : i \in DOMAIN clusters(k)} : k \in bkeys}
    IN [g \in gkeys |-> clusters(<<g[1], g[2]>>)[g[3] + 1]]

\* The dict (target, cwe, cluster_idx) -> cluster.
group_findings(fs) ==
    LET bkeys == {bucket_key(fs[i]) : i \in DOMAIN fs}
        clusters(k) == ClusterBucket(Bucket(fs, k), <<>>)
        gkeys == UNION {{<<k[1], k[2], i - 1>> : i \in DOMAIN clusters(k)} : k \in bkeys}
    IN [g \in gkeys |-> clusters(<<g[1], g[2]>>)[g[3] + 1]]

-----------------------------------------------------------------------------
(* triage-consensus.py: ground-truth index and consensus *)

build_gt_index(entries) ==
    LET keys == {<<entries[i].target, entries[i].cwe>> : i \in DOMAIN entries}
    IN [k \in keys |-> SelectSeq(entries, LAMBDA e : <<e.target, e.cwe>> = k)]

check_ground_truth(target, cwe, gt_index) ==
    IF <<target, cwe>> \in DOMAIN gt_index
    THEN Len(gt_index[<<target, cwe>>]) > 0
    ELSE FALSE

\* The index after a lookup that subscripts the defaultdict: an absent key
\* is inserted with an empty list.
index_after_subscript(target, cwe, index) ==
    IF <<target, cwe>> \in DOMAIN index THEN index
    ELSE index @@ (<<target, cwe>> :> <<>>)

\* The index after check_ground_truth: gt_index.get(key, []) inserts nothing.
index_after_check(target, cwe, index) == index

RECURSIVE IndexAfterTriage(_, _)
\* The index after triage_groups has looked up the (target, cwe) of every
\* group key, in sorted order.
IndexAfterTriage(sorted_keys, index) ==
    IF sorted_keys = <<>> THEN index
    ELSE IndexAfterTriage(
             Tail(sorted_keys),
             index_after_check(Head(sorted_keys)[1], Head(sorted_keys)[2], index))

consensus_needs_ground_truth(tool_count, gt_match) ==
    IF tool_count >= 2 /\ gt_match THEN <<"TP", "high">>
    ELSE IF tool_count = 1 /\ gt_match THEN <<"TP", "medium">>
    ELSE <<"pending", "low">>

consensus_rejects(tool_count, gt_match) ==
    IF tool_count >= 2 THEN <<"TP", "high">>
    ELSE IF tool_count = 1 /\ gt_match THEN <<"TP", "medium">>
    ELSE <<"FP", "low">>

\* The consensus rules: <<verdict, confidence>>.
consensus(tool_count, gt_match) ==
    IF tool_count >= 2 THEN <<"TP", "high">>
    ELSE IF tool_count = 1 /\ gt_match THEN <<"TP", "medium">>
    ELSE <<"pending", "low">>

\* k[0], k[1], k[2] ascending
KeyLess(a, b) ==
    \/ StrLess(a[1], b[1])
    \/ a[1] = b[1] /\ ToksLess(a[2], b[2])
    \/ a[1] = b[1] /\ a[2] = b[2] /\ a[3] < b[3]

RECURSIVE SortKeys(_)
SortKeys(S) ==
    IF S = {} THEN <<>>
    ELSE LET m == CHOOSE x \in S : \A y \in S \ {x} : KeyLess(x, y)
         IN <<m>> \o SortKeys(S \ {m})

LastLocation(cluster) ==
    LET full == {i \in DOMAIN cluster : cluster[i].location # <<>>}
    IN IF full = {} THEN <<>>
       ELSE cluster[CHOOSE i \in full : \A j \in full : j <= i].location

\* First non-empty location of the cluster.
FirstLocation(cluster) ==
    LET full == {i \in DOMAIN cluster : cluster[i].location # <<>>}
    IN IF full = {} THEN <<>> ELSE cluster[Min(full)].location

ClusterTools(cluster) == SortStrings({cluster[i].tool : i \in DOMAIN cluster})

TriageRow(key, cluster, seq, gt_index) ==
    LET tools == ClusterTools(cluster)
        tool_count == Len(tools)
        gt_match == check_ground_truth(key[1], key[2], gt_index)
        vc == consensus(tool_count, gt_match)
    IN [finding_group_id |-> <<"GRP-", key[1], key[2], seq>>,
        tools |-> Join([i \in DOMAIN tools |-> <<tools[i]>>], "|"),
        target |-> key[1],
        cwe |-> key[2],
        severity |-> highest_severity([i \in DOMAIN cluster |-> cluster[i].severity]),
        location |-> FirstLocation(cluster),
        verdict |-> vc[1],
        confidence |-> vc[2],
        ground_truth_match |-> IF gt_match THEN "yes" ELSE "no",
        tool_count |-> tool_count]

triage_groups(grps, gt_index) ==
    LET sorted_keys == SortKeys(DOMAIN grps)
        seq(i) == Cardinality({j \in 1..i : sorted_keys[j][1] = sorted_keys[i][1]})
    IN [i \in DOMAIN sorted_keys |->
           TriageRow(sorted_keys[i], grps[sorted_keys[i]], seq(i), gt_index)]

-----------------------------------------------------------------------------
(* triage-consensus.py: output *)

AutoStem(target) == <<target, "-auto">>

RowsOf(res, target) == SelectSeq(res, LAMBDA r : r.target = target)

CountVerdict(rows, v) == Cardinality({i \in DOMAIN rows : rows[i].verdict = v})

\* The directory after the <target>-auto.csv files are (over)written.
WrittenDir(dir, res) ==
    LET targets == {res[i].target : i \in DOMAIN res}
        stems == DOMAIN dir \cup {AutoStem(t) : t \in targets}
    IN [s \in stems |->
           IF \E t \in targets : s = AutoStem(t)
           THEN RowsOf(res, s[1]) ELSE dir[s]]

\* The directory when the process is killed inside write_triage_files while
\* the file of the k-th target (in sorted order) is open: the files of the
\* targets before it are complete, open(outpath, "w") has truncated the k-th
\* file and only its first n rows have reached it.
KilledDir(dir, res, k, n) ==
    LET order == SortStrings({res[i].target : i \in DOMAIN res})
        stems == DOMAIN dir \cup {AutoStem(order[j]) : j \in 1..k}
    IN [s \in stems |->
           IF \E j \in 1..(k - 1) : s = AutoStem(order[j])
           THEN RowsOf(res, s[1])
           ELSE IF s = AutoStem(order[k])
           THEN SubSeq(RowsOf(res, s[1]), 1, n)
           ELSE dir[s]]

WrittenStats(res) ==
    LET targets == {res[i].target : i \in DOMAIN res}
    IN [t \in targets |->
           [tp |-> CountVerdict(RowsOf(res, t), "TP"),
            pending |-> CountVerdict(RowsOf(res, t), "pending")]]

-----------------------------------------------------------------------------
(* calculate-fmeasure.py *)

load_triage_files_prefer_auto(dir) ==
    LET finals == {s[1] : s \in {x \in DOMAIN dir : x[2] = "-final"}}
        autos == {s[1] : s \in {x \in DOMAIN dir : x[2] = "-auto"}}
        chosen(t) == IF t \in autos THEN <<t, "-auto">> ELSE <<t, "-final">>
    IN [t \in finals \cup autos |->
           [i \in DOMAIN dir[chosen(t)] |->
               ("file_target" :> t) @@ dir[chosen(t)][i]]]

\* Prefer <target>-final.csv, fall back to <target>-auto.csv.
load_triage_files(dir) ==
    LET finals == {s[1] : s \in {x \in DOMAIN dir : x[2] = "-final"}}
        autos == {s[1] : s \in {x \in DOMAIN dir : x[2] = "-auto"}}
        chosen(t) == IF t \in finals THEN <<t, "-final">> ELSE <<t, "-auto">>
    IN [t \in finals \cup autos |->
           [i \in DOMAIN dir[chosen(t)] |->
               ("file_target" :> t) @@ dir[chosen(t)][i]]]

\* target -> rows of <target>.csv, as read.
fm_load_ground_truth(files) == [t \in DOMAIN files |-> files[t]]

\* The tool names extract_tool_findings reads from a row's "tools" column.
RowTools(row) ==
    LET tools_str == Strip(row.tools)
        parts == IF tools_str = <<>> THEN <<>> ELSE Split(tools_str, ",")
        kept == SelectSeq(parts, LAMBDA t : Strip(t) # <<>>)
    IN [i \in DOMAIN kept |-> LowerToks(Strip(kept[i]))]

DefaultStats == [tp |-> 0, fp |-> 0, tp_cwes |-> {}]

Put(d, key, v) == [k \in DOMAIN d \cup {key} |-> IF k = key THEN v ELSE d[k]]

CreditToolPendingAsFp(tool_stats, tool, target, verdict, cwe) ==
    LET key == <<tool, target>>
        old == IF key \in DOMAIN tool_stats THEN tool_stats[key] ELSE DefaultStats
    IN IF verdict = "TP"
       THEN Put(tool_stats, key,
                [old EXCEPT !.tp = @ + 1,
                            !.tp_cwes = IF cwe # <<>> THEN @ \cup {cwe} ELSE @])
       ELSE Put(tool_stats, key, [old EXCEPT !.fp = @ + 1])

CreditTool(tool_stats, tool, target, verdict, cwe) ==
    LET key == <<tool, target>>
        old == IF key \in DOMAIN tool_stats THEN tool_stats[key] ELSE DefaultStats
    IN IF verdict = "TP"
       THEN Put(tool_stats, key,
                [old EXCEPT !.tp = @ + 1,
                            !.tp_cwes = IF cwe # <<>> THEN @ \cup {cwe} ELSE @])
       ELSE IF verdict = "FP"
       THEN Put(tool_stats, key, [old EXCEPT !.fp = @ + 1])
       ELSE tool_stats

RECURSIVE CreditTools(_, _, _, _, _)
CreditTools(tool_stats, tools, target, verdict, cwe) ==
    IF tools = <<>> THEN tool_stats
    ELSE CreditTools(CreditTool(tool_stats, Head(tools), target, verdict, cwe),
                     Tail(tools), target, verdict, cwe)

RECURSIVE CreditRows(_, _, _)
CreditRows(tool_stats, rows, target) ==
    IF rows = <<>> THEN tool_stats
    ELSE CreditRows(CreditTools(tool_stats, RowTools(Head(rows)), target,
                                Upper(Head(rows).verdict), Strip(Head(rows).cwe)),
                    Tail(rows), target)

RECURSIVE CreditTargets(_, _, _)
CreditTargets(tool_stats, targets, data) ==
    IF targets = <<>> THEN tool_stats
    ELSE CreditTargets(CreditRows(tool_stats, data[Head(targets)], Head(targets)),
                       Tail(targets), data)

\* (tool, target) -> [tp, fp, tp_cwes]
extract_tool_findings(data) ==
    CreditTargets(EmptyMap, SortStrings(DOMAIN data), data)

\* round(n / d, 3) in thousandths, or of a quotient of thousandths: n / d
\* rounded to the nearest integer.  A quotient exactly halfway between two
\* integers goes to the even one here; Python rounds the double nearest to
\* the quotient, which at a halfway point lies on either side of it, so the
\* properties below constrain rounded values only to within half a unit.
RoundDiv(n, d) ==
    LET q == n \div d
        r == n % d
    IN IF 2 * r < d THEN q
       ELSE IF 2 * r > d THEN q + 1
       ELSE IF q % 2 = 0 THEN q ELSE q + 1

\* What a division by zero gives in place of a number.
ZeroDivisionError == -1

\* round(n / d, 3), in thousandths.
PyDiv(n, d) == IF d = 0 THEN ZeroDivisionError ELSE RoundDiv(n, d)

FnCountPerClass(gt_rows, tp_cwes) ==
    Cardinality({Strip(gt_rows[i].cwe) : i \in DOMAIN gt_rows} \ tp_cwes)

\* Ground-truth entries whose CWE was not found as TP.
FnCount(gt_rows, tp_cwes) ==
    Cardinality({i \in DOMAIN gt_rows : Strip(gt_rows[i].cwe) \notin tp_cwes})

FmeasureRowUnguarded(tool, target, st, gt_rows) ==
    LET tp == st.tp
        fp == st.fp
        fn == FnCount(gt_rows, st.tp_cwes)
        precision == IF tp + fp > 0 THEN PyDiv(1000 * tp, tp + fp) ELSE 0
        recall == PyDiv(1000 * tp, tp + fn)
        f1 == IF precision + recall > 0
              THEN PyDiv(2 * precision * recall, precision + recall) ELSE 0
    IN [tool |-> tool, target |-> target, tp |-> tp, fp |-> fp, fn |-> fn,
        total_findings |-> tp + fp, precision |-> precision, recall |-> recall,
        f1 |-> f1]

\* One row of the F-measure summary; precision, recall and f1 in thousandths.
FmeasureRow(tool, target, st, gt_rows) ==
    LET tp == st.tp
        fp == st.fp
        fn == FnCount(gt_rows, st.tp_cwes)
        precision == IF tp + fp > 0 THEN PyDiv(1000 * tp, tp + fp) ELSE 0
        recall == IF tp + fn > 0 THEN PyDiv(1000 * tp, tp + fn) ELSE 0
        f1 == IF precision + recall > 0
              THEN PyDiv(2 * precision * recall, precision + recall) ELSE 0
    IN [tool |-> tool, target |-> target, tp |-> tp, fp |-> fp, fn |-> fn,
        total_findings |-> tp + fp, precision |-> precision, recall |-> recall,
        f1 |-> f1]

\* Sort key (-f1, tool, target).
FmeasureBefore(a, b) ==
    \/ a.f1 > b.f1
    \/ a.f1 = b.f1 /\ ToksLess(a.tool, b.tool)
    \/ a.f1 = b.f1 /\ a.tool = b.tool /\ StrLess(a.target, b.target)

RECURSIVE SortFmeasure(_)
SortFmeasure(S) ==
    IF S = {} THEN <<>>
    ELSE LET m == CHOOSE x \in S : \A y \in S \ {x} : FmeasureBefore(x, y)
         IN <<m>> \o SortFmeasure(S \ {m})

calculate_fmeasure(tf, gt) ==
    SortFmeasure({FmeasureRow(k[1], k[2], tf[k], gt[k[2]]) :
                     k \in {x \in DOMAIN tf : x[2] \in DOMAIN gt}})

RECURSIVE SortToks(_)
\* sorted() of a set of strings
SortToks(S) ==
    IF S = {} THEN <<>>
    ELSE LET m == CHOOSE x \in S : \A y \in S \ {x} : ToksLess(x, y)
         IN <<m>> \o SortToks(S \ {m})

\* gt_by_cwe, flattened: one <<cwe, target>> per ground-truth row that has a
\* CWE, targets in file order.
GtByCwe(gt) ==
    LET names == SortStrings(DOMAIN gt)
        all == Flatten([k \in DOMAIN names |->
                   [j \in DOMAIN gt[names[k]] |->
                       <<Strip(gt[names[k]][j].cwe), names[k]>>]])
    IN SelectSeq(all, LAMBDA e : e[1] # <<>>)

CoverageRow(tool, cwe, tf, by_cwe) ==
    LET targets_with_cwe == SelectSeq(by_cwe, LAMBDA e : e[1] = cwe)
        total == Len(targets_with_cwe)
        found == Cardinality({i \in DOMAIN targets_with_cwe :
                     /\ <<tool, targets_with_cwe[i][2]>> \in DOMAIN tf
                     /\ cwe \in tf[<<tool, targets_with_cwe[i][2]>>].tp_cwes})
    IN [tool |-> tool, cwe |-> cwe, found_count |-> found,
        missed_count |-> total - found, total_in_ground_truth |-> total,
        coverage_pct |-> IF total > 0 THEN PyDiv(1000 * found, total) ELSE 0]

\* One row per tool and ground-truth CWE, tools and CWEs sorted;
\* coverage_pct in tenths of a percent.
calculate_cwe_coverage(tf, gt) ==
    LET by_cwe == GtByCwe(gt)
        tools == SortToks({k[1] : k \in DOMAIN tf})
        cwes == SortToks({by_cwe[i][1] : i \in DOMAIN by_cwe})
    IN Flatten([a \in DOMAIN tools |->
                   [c \in DOMAIN cwes |->
                       CoverageRow(tools[a], cwes[c], tf, by_cwe)]])

RECURSIVE SumField(_, _)
\* sum(r[field] for r in rows)
SumField(rows, field) ==
    IF rows = <<>> THEN 0 ELSE Head(rows)[field] + SumField(Tail(rows), field)

ScorecardRowWeighted(tool, fm, cov) ==
    LET rows == SelectSeq(fm, LAMBDA r : r.tool = tool)
        n == Len(rows)
        tp == SumField(rows, "tp")
        fp == SumField(rows, "fp")
        fn == SumField(rows, "fn")
        p == IF tp + fp > 0 THEN PyDiv(1000 * tp, tp + fp) ELSE 0
        r == IF tp + fn > 0 THEN PyDiv(1000 * tp, tp + fn) ELSE 0
    IN [tool |-> tool, avg_precision |-> p, avg_recall |-> r,
        avg_f1 |-> IF p + r > 0 THEN PyDiv(2 * p * r, p + r) ELSE 0,
        total_tp |-> tp, total_fp |-> fp, total_fn |-> fn,
        targets_scanned |-> n,
        unique_cwes_found |->
            Cardinality({cov[i].cwe : i \in {j \in DOMAIN cov :
                            cov[j].tool = tool /\ cov[j].found_count > 0}})]

\* The scorecard row of a tool: means over its F-measure rows, in thousandths.
ScorecardRow(tool, fm, cov) ==
    LET rows == SelectSeq(fm, LAMBDA r : r.tool = tool)
        n == Len(rows)
    IN [tool |-> tool,
        avg_precision |-> IF n > 0 THEN PyDiv(SumField(rows, "precision"), n) ELSE 0,
        avg_recall |-> IF n > 0 THEN PyDiv(SumField(rows, "recall"), n) ELSE 0,
        avg_f1 |-> IF n > 0 THEN PyDiv(SumField(rows, "f1"), n) ELSE 0,
        total_tp |-> SumField(rows, "tp"),
        total_fp |-> SumField(rows, "fp"),
        total_fn |-> SumField(rows, "fn"),
        targets_scanned |-> n,
        unique_cwes_found |->
            Cardinality({cov[i].cwe : i \in {j \in DOMAIN cov :
                            cov[j].tool = tool /\ cov[j].found_count > 0}})]

\* Sort key (-avg_f1, tool).
ScorecardBefore(a, b) ==
    \/ a.avg_f1 > b.avg_f1
    \/ a.avg_f1 = b.avg_f1 /\ ToksLess(a.tool, b.tool)

RECURSIVE SortScorecard(_)
SortScorecard(S) ==
    IF S = {} THEN <<>>
    ELSE LET m == CHOOSE x \in S : \A y \in S \ {x} : ScorecardBefore(x, y)
         IN <<m>> \o SortScorecard(S \ {m})

calculate_scorecard(fm, cov) ==
    SortScorecard({ScorecardRow(fm[i].tool, fm, cov) : i \in DOMAIN fm})

-----------------------------------------------------------------------------
(* ai-code-security-study-2026/scripts/validate.py *)

SEVERITY_RANK ==
    ("CRITICAL" :> 5) @@ ("HIGH" :> 4) @@ ("MEDIUM" :> 3) @@ ("LOW" :> 2)
    @@ ("INFO" :> 1)

RECURSIVE HighestFrom(_, _, _)
\* The loop of highest_severity over the severities left, from best so far.
HighestFrom(sevs, best, best_rank) ==
    IF sevs = <<>> THEN best
    ELSE LET sev == Head(sevs)
             rank == IF sev # "" /\ Upper(sev) \in DOMAIN SEVERITY_RANK
                     THEN SEVERITY_RANK[Upper(sev)] ELSE 0
         IN IF rank > best_rank
            THEN HighestFrom(Tail(sevs), Upper(sev), rank)
            ELSE HighestFrom(Tail(sevs), best, best_rank)

validate_highest_severity(sevs) == HighestFrom(sevs, "LOW", 0)

\* The key a finding is grouped under.  A tool name and a rule id are token
\* sequences in which every "_" is a token of its own.
DedupKey(f) ==
    LET cwe == Strip(f.cwe)
    IN IF cwe = <<>>
       THEN <<f.model, f.file, <<"_nocwe_">> \o f.tool \o <<"_">> \o f.rule_id>>
       ELSE <<f.model, f.file, cwe>>

RECURSIVE DedupKeys(_, _)
\* The keys of the groups dict in insertion order.
DedupKeys(raw, seen) ==
    IF raw = <<>> THEN seen
    ELSE IF \E k \in DOMAIN seen : seen[k] = DedupKey(Head(raw))
         THEN DedupKeys(Tail(raw), seen)
         ELSE DedupKeys(Tail(raw), Append(seen, DedupKey(Head(raw))))

DedupRow(key, group) ==
    LET lines == {group[i].line : i \in {j \in DOMAIN group : group[j].line > 0}}
        named == {i \in DOMAIN group :
                     group[i].owasp # "" /\ group[i].owasp # "unknown"}
    IN [model |-> key[1],
        file |-> key[2],
        line |-> IF lines = {} THEN 0 ELSE Min(lines),
        cwe |-> IF ~StartsWith(key[3], "_nocwe_") THEN key[3] ELSE group[1].cwe,
        owasp |-> IF named = {} THEN "" ELSE group[Min(named)].owasp,
        severity |-> validate_highest_severity(
                         [i \in DOMAIN group |-> group[i].severity]),
        tools |-> Join(SortToks({group[i].tool : i \in DOMAIN group}), ", ")]

deduplicate_findings(raw) ==
    LET keys == DedupKeys(raw, <<>>)
    IN [k \in DOMAIN keys |->
           DedupRow(keys[k], SelectSeq(raw, LAMBDA f : DedupKey(f) = keys[k]))]

-----------------------------------------------------------------------------
(* The three benchmark scripts, run one after the other on one results tree,
   and validate.py, which shares no state with them and is run afterwards *)

\* normalize-results.py main
Normalize ==
    /\ pc = "normalize"
    /\ IF \E i \in DOMAIN raw_output : FileRaises(raw_output[i])
       THEN /\ csv_rows' = <<>>
            /\ normalize_exit' = 1
            /\ pc' = "done"
       ELSE /\ csv_rows' = NormalizeResults(raw_output)
            /\ normalize_exit' = 0
            /\ pc' = "triage_start"
    /\ UNCHANGED <<cwe_coverage, scorecard>>
    /\ UNCHANGED <<raw_output, gt_files, findings, gt_entries, groups, results,
                   triage_dir, stats, triage_exit, triage_data, ground_truth,
                   tool_findings, fmeasure, metrics_exit>>
    /\ UNCHANGED <<main_gt_index, raw_findings, deduped>>

\* triage-consensus.py main: findings = load_normalized(normalized_csv)
TriageLoadNormalized ==
    /\ pc = "triage_start"
    /\ findings' = load_normalized(csv_rows)
    /\ pc' = "triage_load_gt"
    /\ UNCHANGED <<raw_output, gt_files, csv_rows, gt_entries, groups, results,
                   triage_dir, stats, triage_exit, triage_data, ground_truth,
                   tool_findings, fmeasure, metrics_exit>>
    /\ UNCHANGED <<normalize_exit, cwe_coverage, scorecard>>
    /\ UNCHANGED <<main_gt_index, raw_findings, deduped>>

\* gt_entries = load_ground_truth(gt_dir)
TriageLoadGroundTruth ==
    /\ pc = "triage_load_gt"
    /\ gt_entries' = load_ground_truth(gt_files)
    /\ pc' = "triage_loaded"
    /\ UNCHANGED <<raw_output, gt_files, csv_rows, findings, groups, results,
                   triage_dir, stats, triage_exit, triage_data, ground_truth,
                   tool_findings, fmeasure, metrics_exit>>
    /\ UNCHANGED <<normalize_exit, cwe_coverage, scorecard>>
    /\ UNCHANGED <<main_gt_index, raw_findings, deduped>>

\* if not findings: sys.exit(1)
TriageNoFindingsFails ==
    /\ pc = "triage_loaded"
    /\ findings = <<>>
    /\ triage_exit' = 1
    /\ pc' = "done"
    /\ UNCHANGED <<raw_output, gt_files, csv_rows, findings, gt_entries, groups,
                   results, triage_dir, stats, triage_data, ground_truth,
                   tool_findings, fmeasure, metrics_exit, normalize_exit,
                   cwe_coverage, scorecard>>
    /\ UNCHANGED <<main_gt_index, raw_findings, deduped>>

\* if not findings: sys.exit(0)
TriageNoFindings ==
    /\ pc = "triage_loaded"
    /\ findings = <<>>
    /\ triage_exit' = 0
    /\ pc' = "metrics_start"
    /\ UNCHANGED <<raw_output, gt_files, csv_rows, findings, gt_entries, groups,
                   results, triage_dir, stats, triage_data, ground_truth,
                   tool_findings, fmeasure, metrics_exit>>
    /\ UNCHANGED <<normalize_exit, cwe_coverage, scorecard>>
    /\ UNCHANGED <<main_gt_index, raw_findings, deduped>>

\* groups = group_findings(findings)
TriageGroup ==
    /\ pc = "triage_loaded"
    /\ findings # <<>>
    /\ groups' = group_findings(findings)
    /\ pc' = "triage_grouped"
    /\ UNCHANGED <<raw_output, gt_files, csv_rows, findings, gt_entries, results,
                   triage_dir, stats, triage_exit, triage_data, ground_truth,
                   tool_findings, fmeasure, metrics_exit>>
    /\ UNCHANGED <<normalize_exit, cwe_coverage, scorecard>>
    /\ UNCHANGED <<main_gt_index, raw_findings, deduped>>

\* gt_index = build_gt_index(gt_entries); results = triage_groups(groups,
\* gt_index)
TriageClassify ==
    /\ pc = "triage_grouped"
    /\ results' = triage_groups(groups, build_gt_index(gt_entries))
    /\ main_gt_index' = IndexAfterTriage(SortKeys(DOMAIN groups),
                                         build_gt_index(gt_entries))
    /\ pc' = "triage_classified"
    /\ UNCHANGED <<raw_output, gt_files, csv_rows, findings, gt_entries, groups,
                   triage_dir, stats, triage_exit, triage_data, ground_truth,
                   tool_findings, fmeasure, metrics_exit>>
    /\ UNCHANGED <<normalize_exit, cwe_coverage, scorecard>>
    /\ UNCHANGED <<raw_findings, deduped>>

\* stats = write_triage_files(results, output_dir); the script ends.
TriageWrite ==
    /\ pc = "triage_classified"
    /\ triage_dir' = WrittenDir(triage_dir, results)
    /\ stats' = WrittenStats(results)
    /\ triage_exit' = 0
    /\ pc' = "metrics_start"
    /\ UNCHANGED <<raw_output, gt_files, csv_rows, findings, gt_entries, groups,
                   results, triage_data, ground_truth, tool_findings, fmeasure,
                   metrics_exit>>
    /\ UNCHANGED <<normalize_exit, cwe_coverage, scorecard>>
    /\ UNCHANGED <<main_gt_index, raw_findings, deduped>>

\* The process is killed inside write_triage_files: no stats, no exit status
\* of the script, and the pipeline stops.
TriageWriteKilled ==
    /\ pc = "triage_classified"
    /\ \E k \in 1..Cardinality({results[i].target : i \in DOMAIN results}) :
           LET order == SortStrings({results[i].target : i \in DOMAIN results})
           IN \E n \in 0..(Len(RowsOf(results, order[k])) - 1) :
                  triage_dir' = KilledDir(triage_dir, results, k, n)
    /\ pc' = "done"
    /\ UNCHANGED <<raw_output, gt_files, csv_rows, findings, gt_entries, groups,
                   results, stats, triage_exit, triage_data, ground_truth,
                   tool_findings, fmeasure, metrics_exit, normalize_exit,
                   cwe_coverage, scorecard>>
    /\ UNCHANGED <<main_gt_index, raw_findings, deduped>>

\* calculate-fmeasure.py main: triage_data = load_triage_files(triage_dir)
MetricsLoadTriage ==
    /\ pc = "metrics_start"
    /\ load_triage_files(triage_dir) # EmptyMap
    /\ triage_data' = load_triage_files(triage_dir)
    /\ pc' = "metrics_load_gt"
    /\ UNCHANGED <<raw_output, gt_files, csv_rows, findings, gt_entries, groups,
                   results, triage_dir, stats, triage_exit, ground_truth,
                   tool_findings, fmeasure, metrics_exit>>
    /\ UNCHANGED <<normalize_exit, cwe_coverage, scorecard>>
    /\ UNCHANGED <<main_gt_index, raw_findings, deduped>>

\* if not triage_data: sys.exit(1)
MetricsNoTriage ==
    /\ pc = "metrics_start"
    /\ load_triage_files(triage_dir) = EmptyMap
    /\ metrics_exit' = 1
    /\ pc' = "done"
    /\ UNCHANGED <<raw_output, gt_files, csv_rows, findings, gt_entries, groups,
                   results, triage_dir, stats, triage_exit, triage_data,
                   ground_truth, tool_findings, fmeasure>>
    /\ UNCHANGED <<normalize_exit, cwe_coverage, scorecard>>
    /\ UNCHANGED <<main_gt_index, raw_findings, deduped>>

\* ground_truth = load_ground_truth(gt_dir)
MetricsLoadGroundTruth ==
    /\ pc = "metrics_load_gt"
    /\ fm_load_ground_truth(gt_files) # EmptyMap
    /\ ground_truth' = fm_load_ground_truth(gt_files)
    /\ pc' = "metrics_loaded"
    /\ UNCHANGED <<raw_output, gt_files, csv_rows, findings, gt_entries, groups,
                   results, triage_dir, stats, triage_exit, triage_data,
                   tool_findings, fmeasure, metrics_exit>>
    /\ UNCHANGED <<normalize_exit, cwe_coverage, scorecard>>
    /\ UNCHANGED <<main_gt_index, raw_findings, deduped>>

\* if not ground_truth: sys.exit(1)
MetricsNoGroundTruth ==
    /\ pc = "metrics_load_gt"
    /\ fm_load_ground_truth(gt_files) = EmptyMap
    /\ metrics_exit' = 1
    /\ pc' = "done"
    /\ UNCHANGED <<raw_output, gt_files, csv_rows, findings, gt_entries, groups,
                   results, triage_dir, stats, triage_exit, triage_data,
                   ground_truth, tool_findings, fmeasure>>
    /\ UNCHANGED <<normalize_exit, cwe_coverage, scorecard>>
    /\ UNCHANGED <<main_gt_index, raw_findings, deduped>>

\* tool_findings = extract_tool_findings(triage_data)
MetricsExtract ==
    /\ pc = "metrics_loaded"
    /\ tool_findings' = extract_tool_findings(triage_data)
    /\ pc' = "metrics_extracted"
    /\ UNCHANGED <<raw_output, gt_files, csv_rows, findings, gt_entries, groups,
                   results, triage_dir, stats, triage_exit, triage_data,
                   ground_truth, fmeasure, metrics_exit>>
    /\ UNCHANGED <<normalize_exit, cwe_coverage, scorecard>>
    /\ UNCHANGED <<main_gt_index, raw_findings, deduped>>

\* fmeasure = calculate_fmeasure(tool_findings, ground_truth, speed_data)
MetricsCalculate ==
    /\ pc = "metrics_extracted"
    /\ fmeasure' = calculate_fmeasure(tool_findings, ground_truth)
    /\ pc' = "metrics_calculated"
    /\ UNCHANGED <<raw_output, gt_files, csv_rows, findings, gt_entries, groups,
                   results, triage_dir, stats, triage_exit, triage_data,
                   ground_truth, tool_findings, metrics_exit, normalize_exit,
                   cwe_coverage, scorecard>>
    /\ UNCHANGED <<main_gt_index, raw_findings, deduped>>

\* cwe_coverage = calculate_cwe_coverage(tool_findings, ground_truth)
MetricsCoverage ==
    /\ pc = "metrics_calculated"
    /\ cwe_coverage' = calculate_cwe_coverage(tool_findings, ground_truth)
    /\ pc' = "metrics_covered"
    /\ UNCHANGED <<raw_output, gt_files, csv_rows, findings, gt_entries, groups,
                   results, triage_dir, stats, triage_exit, triage_data,
                   ground_truth, tool_findings, fmeasure, metrics_exit,
                   normalize_exit, scorecard>>
    /\ UNCHANGED <<main_gt_index, raw_findings, deduped>>

\* scorecard = calculate_scorecard(fmeasure, cwe_coverage); the three CSVs
\* are written and the script ends.
MetricsScorecard ==
    /\ pc = "metrics_covered"
    /\ scorecard' = calculate_scorecard(fmeasure, cwe_coverage)
    /\ metrics_exit' = 0
    /\ pc' = "done"
    /\ UNCHANGED <<raw_output, gt_files, csv_rows, findings, gt_entries, groups,
                   results, triage_dir, stats, triage_exit, triage_data,
                   ground_truth, tool_findings, fmeasure, normalize_exit,
                   cwe_coverage>>
    /\ UNCHANGED <<main_gt_index, raw_findings, deduped>>

\* validate.py main: deduped = deduplicate_findings(raw_findings)
Deduplicate ==
    /\ pc = "done"
    /\ deduped' = deduplicate_findings(raw_findings)
    /\ pc' = "validated"
    /\ UNCHANGED <<raw_output, gt_files, csv_rows, findings, gt_entries, groups,
                   results, triage_dir, stats, triage_exit, triage_data,
                   ground_truth, tool_findings, fmeasure, metrics_exit,
                   normalize_exit, cwe_coverage, scorecard, main_gt_index,
                   raw_findings>>

Next ==
    \/ Normalize
    \/ TriageLoadNormalized
    \/ TriageLoadGroundTruth
    \/ TriageNoFindings
    \/ TriageGroup
    \/ TriageClassify
    \/ TriageWrite
    \/ TriageWriteKilled
    \/ MetricsLoadTriage
    \/ MetricsNoTriage
    \/ MetricsLoadGroundTruth
    \/ MetricsNoGroundTruth
    \/ MetricsExtract
    \/ MetricsCalculate
    \/ MetricsCoverage
    \/ MetricsScorecard
    \/ Deduplicate

-----------------------------------------------------------------------------
(* Inputs *)

RawRecord(tool, target, severity, cwes, file, line, raw_id) ==
    [tool |-> tool, target |-> target, severity |-> severity, cwes |-> cwes,
     file |-> file, line |-> line, raw_id |-> raw_id, shape |-> "object"]

\* A run starts with the tool output and the ground-truth files on disk, an
\* empty triage directory and nothing computed.
InitWith(RawOutputs, GtDirs) ==
    /\ pc = "normalize"
    /\ raw_output \in RawOutputs
    /\ gt_files \in GtDirs
    /\ csv_rows = <<>>
    /\ findings = <<>>
    /\ gt_entries = <<>>
    /\ groups = EmptyMap
    /\ results = <<>>
    /\ triage_dir = EmptyMap
    /\ stats = EmptyMap
    /\ triage_exit = -1
    /\ triage_data = EmptyMap
    /\ ground_truth = EmptyMap
    /\ tool_findings = EmptyMap
    /\ fmeasure = <<>>
    /\ metrics_exit = -1
    /\ normalize_exit = -1
    /\ cwe_coverage = <<>>
    /\ scorecard = <<>>
    /\ main_gt_index = EmptyMap
    /\ raw_findings = <<>>
    /\ deduped = <<>>

GtRowOf(cwe) == [cwe |-> cwe, location |-> <<>>]

\* No ground-truth file, or vulnpy.csv with up to MaxGT rows.
GtDirs ==
    {EmptyMap} \cup
    {("vulnpy" :> rows) :
        rows \in SeqUpTo({GtRowOf(<<"79">>), GtRowOf(<<"CWE-", "89">>)}, MaxGT)}

\* bandit and zap records on two targets, with or without a CWE, with or
\* without a location (the two locations share the basename app.py).
MainRecords ==
    {RawRecord("bandit", t, "HIGH", c, f, <<"42">>, "B608") :
        t \in {"dvwa", "vulnpy"}, c \in {<<>>, << <<"79">> >>},
        f \in {<<>>, <<"/", "src", "/", "app.py">>}}
    \cup
    {RawRecord("zap", t, "2", c, <<"http://", "localhost", ":", "3000", "/", "app.py">>,
               <<>>, "40018") :
        t \in {"dvwa", "vulnpy"}, c \in {<<>>, << <<"79">> >>}}

Init == InitWith(SeqUpTo(MainRecords, MaxFindings), GtDirs)

Spec == Init /\ [][Next]_vars

\* Location-varied records of one (target, cwe) bucket: two zap URLs with
\* different paths and the same last segment, bandit files with and without
\* that basename, and a record without a location.
ClusterRecords ==
    {RawRecord("zap", "vulnpy", "2", << <<"89">> >>, f, <<>>, "40018") :
        f \in {<<"http://", "x", "/", "foo", "/", "a.js">>,
               <<"https://", "y", "/", "bar", "/", "a.js", "?", "q=1">>}}
    \cup
    {RawRecord("bandit", "vulnpy", "HIGH", << <<"89">> >>, fl[1], fl[2], "B608") :
        fl \in {<< <<"/", "src", "/", "a.js">>, <<"42">> >>,
                << <<"lib", "/", "b.js">>, <<>> >>,
                << <<>>, <<>> >>}}

InitCluster == InitWith(SeqUpTo(ClusterRecords, MaxClusterFindings), GtDirs)

SpecCluster == InitCluster /\ [][Next]_vars

RawSeverities ==
    {"", "0", "1", "2", "3"} \cup
    UNION {Range(t) : t \in
              {c \in CaseForms :
                  c[1] \in {"critical", "high", "medium", "low", "info", "warning",
                            "error", "negligible", "unknown", "bogus"}}}

NormTools == {"trivy", "grype", "nodejsscan", "zap", "bandit"}

\* CWE ids as the tools' JSON carries them.
RawCweIds ==
    {<<"79">>, <<"CWE-", "79">>, <<"cwe-", "79">>, <<"abc">>, <<"0">>,
     <<"CWE-", "79", ":", " ", "title">>}

\* The "cwe" column of a ground-truth file.
RawCweStrings ==
    {<<>>, <<"79">>, <<"cwe-", "79">>, <<"CWE-", "79">>, <<" ", "79", " ">>,
     <<"abc">>, <<"CWE-", "abc">>, <<"CWE-", "79", ":", " ", "title">>, <<"None">>}

\* One record per run: every tool with every severity spelling, and every
\* tool with every CWE id (grype also with a null cweId).
NormRecords ==
    {RawRecord(t, "vulnpy", sev, << <<"79">> >>, <<"app.py">>, <<>>, "R1") :
        t \in NormTools, sev \in RawSeverities}
    \cup
    {RawRecord(t, "vulnpy", "HIGH", c, <<"app.py">>, <<>>, "R1") :
        t \in NormTools, c \in {<<>>} \cup {<<x>> : x \in RawCweIds}}
    \cup
    {RawRecord("grype", "vulnpy", "High", <<NoneVal>>, <<"app.py">>, <<>>, "R1")}

GtDirsNorm == {EmptyMap} \cup {("vulnpy" :> <<GtRowOf(c)>>) : c \in RawCweStrings}

InitNorm == InitWith({<<>>} \cup {<<r>> : r \in NormRecords}, GtDirsNorm)

SpecNorm == InitNorm /\ [][Next]_vars

\* Up to two records of one (target, cwe) bucket whose locations differ in
\* kind: URLs without a path, with equal paths on different hosts, with
\* different paths and an equal last segment; files with a line, a line and
\* a column, a drive letter, no directory; and no location.
LocRecords ==
    {RawRecord("zap", "vulnpy", "2", << <<"89">> >>, f, <<>>, "40018") :
        f \in {<<"http://", "x">>,
               <<"http://", "y">>,
               <<"http://", "x", "/", "a", "/", "b">>,
               <<"http://", "y", "/", "a", "/", "b", "?", "q=1">>,
               <<"https://", "y", ":", "3000", "/", "c", "/", "b">>}}
    \cup
    {RawRecord("bandit", "vulnpy", "HIGH", << <<"89">> >>, fl[1], fl[2], "B608") :
        fl \in {<< <<"/", "src", "/", "app.js">>, <<"42">> >>,
                << <<"lib", "/", "app.js">>, <<>> >>,
                << <<"C", ":", "/", "src", "/", "app.js">>, <<"42">> >>,
                << <<"/", "src", "/", "other.js">>, <<"42", ":", "10">> >>,
                << <<"b">>, <<>> >>,
                << <<>>, <<>> >>}}

LocOutputs ==
    {<<>>} \cup {<<a>> : a \in LocRecords} \cup {<<a, b>> : a, b \in LocRecords}

GtDirsLoc == {EmptyMap, ("vulnpy" :> <<GtRowOf(<<"CWE-", "89">>)>>)}

InitLoc == InitWith(LocOutputs, GtDirsLoc)

SpecLoc == InitLoc /\ [][Next]_vars

\* A tool-output file that is not the object the tool writes.
RawFile(tool, target, shape) ==
    [RawRecord(tool, target, "", <<>>, <<>>, <<>>, "none") EXCEPT !.shape = shape]

\* Tool-output files: well-formed ones with one record, a file that is not
\* JSON, files whose JSON is a list, and records whose severity is a number.
FileRecords ==
    {RawRecord("trivy", "vulnpy", "HIGH", << <<"CWE-", "79">> >>, <<"pkg">>, <<>>, "CVE-1"),
     RawRecord("bandit", "vulnpy", "HIGH", << <<"79">> >>, <<"app.py">>, <<"42">>, "B608"),
     RawRecord("zap", "vulnpy", "2", << <<"79">> >>,
               <<"http://", "x", "/", "app.py">>, <<>>, "40018"),
     RawFile("trivy", "vulnpy", "unparseable"),
     RawFile("trivy", "vulnpy", "list"),
     RawFile("zap", "vulnpy", "list"),
     RawRecord("trivy", "vulnpy", NumberSeverity, <<>>, <<"pkg">>, <<>>, "CVE-2"),
     RawRecord("zap", "vulnpy", NumberSeverity, <<>>,
               <<"http://", "x", "/", "b">>, <<>>, "10020")}

FileOutputs ==
    {<<>>} \cup {<<a>> : a \in FileRecords} \cup {<<a, b>> : a, b \in FileRecords}

GtDirsFiles == {EmptyMap, ("vulnpy" :> <<GtRowOf(<<"CWE-", "79">>)>>)}

InitFiles == InitWith(FileOutputs, GtDirsFiles)

SpecFiles == InitFiles /\ [][Next]_vars

AdapterTools ==
    {"trivy", "grype", "bearer", "nodejsscan", "bandit", "zap", "nuclei",
     "npm-audit", "pip-audit", "dep-check", "checkov"}

\* One record of every tool, with and without a severity and a CWE;
\* pip-audit and checkov output carries neither.
AdapterRecords ==
    {RawRecord(t, "vulnpy", sev, c, <<"app.py">>, <<>>, "R1") :
        t \in AdapterTools \ {"pip-audit", "checkov"}, sev \in {"", "High"},
        c \in {<<>>, << <<"79">> >>}}
    \cup
    {RawRecord(t, "vulnpy", "", <<>>, <<"app.py">>, <<>>, "R1") :
        t \in {"pip-audit", "checkov"}}

\* Records of three tools on two targets, and a checkov check whose
\* file_path names no known target.
IdRecords ==
    {RawRecord(t, g, "", <<>>, <<"pkg">>, <<>>, "R1") :
        t \in {"npm-audit", "bandit", "checkov"}, g \in {"juice-shop", "vulnpy"}}
    \cup {RawRecord("checkov", "", "", <<>>, <<"pkg">>, <<>>, "R1")}

InitAdapters ==
    InitWith({<<r>> : r \in AdapterRecords} \cup SeqUpTo(IdRecords, MaxIdFindings),
             GtDirsFiles)

SpecAdapters == InitAdapters /\ [][Next]_vars

\* A row of a manually validated <target>-final.csv: the triage columns,
\* the tools separated by commas, the verdict set by hand.
FinalRow(tools, target, cwe, verdict) ==
    [finding_group_id |-> <<"GRP-", target, cwe, 1>>, tools |-> tools,
     target |-> target, cwe |-> cwe, severity |-> "high", location |-> <<>>,
     verdict |-> verdict, confidence |-> "manual",
     ground_truth_match |-> "no", tool_count |-> 1]

FinalRowsVulnpy ==
    {FinalRow(<<"bandit">>, "vulnpy", <<"CWE-", "79">>, "TP"),
     FinalRow(<<"bandit">>, "vulnpy", <<"CWE-", "89">>, "fp"),
     FinalRow(<<"bandit", ",", "zap">>, "vulnpy", <<"CWE-", "89">>, "TP")}

\* bandit with 8 TP and 2 FP.
ExampleFinal ==
    [i \in 1..10 |->
        IF i <= 8 THEN FinalRow(<<"bandit">>, "vulnpy", <<"CWE-", "79">>, "TP")
        ELSE FinalRow(<<"bandit">>, "vulnpy", <<"CWE-", "89">>, "FP")]

FinalFilesDvwa ==
    {<<FinalRow(<<"bandit">>, "dvwa", <<"CWE-", "79">>, "TP")>>,
     <<FinalRow(<<"bandit">>, "dvwa", <<"CWE-", "79">>, "TP"),
       FinalRow(<<"bandit">>, "dvwa", <<"CWE-", "89">>, "FP")>>,
     <<FinalRow(<<"zap">>, "dvwa", <<"CWE-", "89">>, "FP")>>}

\* The files of the map d whose key is in S.
Restrict(d, S) == [k \in S |-> d[k]]

\* Triage directories before the run: each target with or without a
\* -final.csv of up to MaxFinalRows rows.
FinalDirs ==
    {Restrict((<<"vulnpy", "-final">> :> v) @@ (<<"dvwa", "-final">> :> d), S) :
        v \in SeqUpTo(FinalRowsVulnpy, MaxFinalRows) \cup {ExampleFinal},
        d \in FinalFilesDvwa,
        S \in SUBSET {<<"vulnpy", "-final">>, <<"dvwa", "-final">>}}

\* Ground-truth directories of two targets: vulnpy.csv with up to MaxGT
\* rows, dvwa.csv empty or with one row, either file present or not.
GtDirsMetrics ==
    {Restrict(("vulnpy" :> v) @@ ("dvwa" :> d), S) :
        v \in SeqUpTo({GtRowOf(<<"CWE-", "79">>), GtRowOf(<<"CWE-", "89">>)}, MaxGT),
        d \in {<<>>, <<GtRowOf(<<"CWE-", "79">>)>>},
        S \in SUBSET {"vulnpy", "dvwa"}}

MetricsOutputs ==
    {<<>>,
     <<RawRecord("bandit", "vulnpy", "HIGH", << <<"79">> >>,
                 <<"/", "src", "/", "app.py">>, <<"42">>, "B608")>>}

InitMetrics ==
    /\ pc = "normalize"
    /\ raw_output \in MetricsOutputs
    /\ gt_files \in GtDirsMetrics
    /\ triage_dir \in FinalDirs
    /\ csv_rows = <<>>
    /\ findings = <<>>
    /\ gt_entries = <<>>
    /\ groups = EmptyMap
    /\ results = <<>>
    /\ stats = EmptyMap
    /\ triage_exit = -1
    /\ triage_data = EmptyMap
    /\ ground_truth = EmptyMap
    /\ tool_findings = EmptyMap
    /\ fmeasure = <<>>
    /\ metrics_exit = -1
    /\ normalize_exit = -1
    /\ cwe_coverage = <<>>
    /\ scorecard = <<>>
    /\ main_gt_index = EmptyMap
    /\ raw_findings = <<>>
    /\ deduped = <<>>

SpecMetrics == InitMetrics /\ [][Next]_vars

\* A finding of a scan file, with the _tool and _model load_scan_results adds.
RawFinding(model, file, cwe, tool, rule_id, severity, line, owasp) ==
    [model |-> model, file |-> file, cwe |-> cwe, tool |-> tool,
     rule_id |-> rule_id, severity |-> severity, line |-> line, owasp |-> owasp]

\* Findings of two tools, one named like the other plus "_x", under two
\* rule ids, with and without a CWE; and findings of another model, of
\* another file and with a blank CWE.
DedupFindings ==
    {RawFinding("m1", "a.py", c, t[1], r, t[2], t[3], "") :
        c \in {<<>>, <<"CWE-", "79">>},
        t \in {<< <<"bandit">>, "high", 42 >>, << <<"bandit", "_", "x">>, "LOW", 0 >>},
        r \in {<<"r">>, <<"x", "_", "r">>}}
    \cup
    {RawFinding("m2", "a.py", <<>>, <<"bandit">>, <<"r">>, "high", 7, "A03"),
     RawFinding("m1", "b.py", <<"CWE-", "79">>, <<"bandit">>, <<"r">>, "", 7, "unknown"),
     RawFinding("m1", "a.py", <<" ">>, <<"bandit">>, <<"r">>, "MEDIUM", 7, "A03")}

\* validate.py runs on up to MaxRawFindings scan findings, after a run of
\* the benchmark scripts on no or one tool record.
InitDedup ==
    /\ pc = "normalize"
    /\ raw_output \in MetricsOutputs
    /\ gt_files \in GtDirsFiles
    /\ triage_dir = EmptyMap
    /\ csv_rows = <<>>
    /\ findings = <<>>
    /\ gt_entries = <<>>
    /\ groups = EmptyMap
    /\ results = <<>>
    /\ stats = EmptyMap
    /\ triage_exit = -1
    /\ triage_data = EmptyMap
    /\ ground_truth = EmptyMap
    /\ tool_findings = EmptyMap
    /\ fmeasure = <<>>
    /\ metrics_exit = -1
    /\ normalize_exit = -1
    /\ cwe_coverage = <<>>
    /\ scorecard = <<>>
    /\ main_gt_index = EmptyMap
    /\ raw_findings \in SeqUpTo(DedupFindings, MaxRawFindings)
    /\ deduped = <<>>

SpecDedup == InitDedup /\ [][Next]_vars

-----------------------------------------------------------------------------
(* Properties *)

Loaded == pc \notin {"normalize", "triage_start"}

GtLoaded == pc \notin {"normalize", "triage_start", "triage_load_gt"}

Grouped == pc \notin {"normalize", "triage_start", "triage_load_gt", "triage_loaded"}

Classified == Grouped /\ pc # "triage_grouped"

Written == Classified /\ triage_exit = 0

Extracted == pc = "metrics_extracted" \/ (pc = "done" /\ metrics_exit = 0)

Calculated == pc = "done" /\ metrics_exit = 0

SameBucket(i, j) ==
    findings[i].target = findings[j].target /\ findings[i].cwe = findings[j].cwe

\* Findings i and j (positions in the loaded list) are members of one group.
SameGroup(i, j) ==
    \E k \in DOMAIN groups :
        \E a, b \in DOMAIN groups[k] : groups[k][a].id = i /\ groups[k][b].id = j

MatchEdges ==
    {e \in (DOMAIN findings) \X (DOMAIN findings) :
        /\ SameBucket(e[1], e[2])
        /\ locations_match(findings[e[1]].location, findings[e[2]].location)}

RECURSIVE TransitiveClosure(_)
TransitiveClosure(R) ==
    LET R2 == R \cup {<<p[1][1], p[2][2]>> : p \in {q \in R \X R : q[1][2] = q[2][1]}}
    IN IF R2 = R THEN R ELSE TransitiveClosure(R2)

\* C1: two findings of one (target, cwe) bucket are in the same group iff a
\* chain of pairwise matching locations of that bucket links them.
C1_GroupsAreConnectedComponents ==
    Grouped =>
        \A i, j \in DOMAIN findings :
            (i # j /\ SameBucket(i, j)) =>
                (SameGroup(i, j) <=> <<i, j>> \in TransitiveClosure(MatchEdges))

\* C2: two findings without a CWE share a group only if they have the same
\* target, tool and rule id.
C2_NoCweNeverMergedAcrossTools ==
    Grouped =>
        \A k \in DOMAIN groups :
            \A a, b \in DOMAIN groups[k] :
                (a # b /\ groups[k][a].cwe = <<>> /\ groups[k][b].cwe = <<>>) =>
                    /\ groups[k][a].target = groups[k][b].target
                    /\ groups[k][a].tool = groups[k][b].tool
                    /\ groups[k][a].raw_id = groups[k][b].raw_id

\* The TP groups of target t that tool a reported.
TpGroupsOf(a, t) ==
    {i \in DOMAIN results :
        /\ results[i].verdict = "TP"
        /\ results[i].target = t
        /\ \E m \in DOMAIN groups[SortKeys(DOMAIN groups)[i]] :
               groups[SortKeys(DOMAIN groups)[i]][m].tool = a}

\* C3: the tools credited for the written rows are the tools of the groups:
\* each tool of a TP group gets one TP and the group's CWE, and no other
\* tool key gets anything.
C3_CreditGoesToGroupTools ==
    Extracted =>
        LET tools == {findings[i].tool : i \in DOMAIN findings}
            targets == {findings[i].target : i \in DOMAIN findings}
        IN /\ \A a \in tools, t \in targets :
                  TpGroupsOf(a, t) # {} =>
                      /\ <<<<a>>, t>> \in DOMAIN tool_findings
                      /\ tool_findings[<<<<a>>, t>>].tp = Cardinality(TpGroupsOf(a, t))
                      /\ tool_findings[<<<<a>>, t>>].tp_cwes =
                             {results[i].cwe : i \in TpGroupsOf(a, t)} \ {<<>>}
           /\ \A k \in DOMAIN tool_findings :
                  \E a \in tools : k[1] = <<a>> /\ TpGroupsOf(a, k[2]) # {}

\* The CWE set of the tool key of an F-measure row.
TpCwesOf(r) == tool_findings[<<r.tool, r.target>>].tp_cwes

\* C4 as stated: FN counts the ground-truth CWE classes without a TP, however
\* many entries of the target carry the class.
C4_FnPerCweClass ==
    Calculated =>
        \A i \in DOMAIN fmeasure :
            fmeasure[i].fn =
                Cardinality({Strip(gt_files[fmeasure[i].target][j].cwe) :
                                j \in DOMAIN gt_files[fmeasure[i].target]}
                            \ TpCwesOf(fmeasure[i]))

\* C4 as amended: FN counts the ground-truth entries whose CWE has no TP, one
\* per entry.
C4_FnPerGroundTruthEntry ==
    Calculated =>
        \A i \in DOMAIN fmeasure :
            fmeasure[i].fn =
                Cardinality({j \in DOMAIN gt_files[fmeasure[i].target] :
                                Strip(gt_files[fmeasure[i].target][j].cwe)
                                    \notin TpCwesOf(fmeasure[i])})

C4_Witness ==
    /\ Calculated
    /\ \E i \in DOMAIN fmeasure :
           /\ fmeasure[i].fn = 2
           /\ Len(gt_files[fmeasure[i].target]) = 2
           /\ gt_files[fmeasure[i].target][1].cwe = gt_files[fmeasure[i].target][2].cwe

IsCanonicalCwe(c) ==
    c = <<>> \/ (Len(c) = 2 /\ c[1] = "CWE-" /\ c[2] \in DigitTokens)

\* C5: every CWE kept by load_normalized and load_ground_truth is empty or
\* CWE-<digits>.
C5_CweEmptyOrCanonical ==
    /\ Loaded => \A i \in DOMAIN findings : IsCanonicalCwe(findings[i].cwe)
    /\ GtLoaded => \A i \in DOMAIN gt_entries : IsCanonicalCwe(gt_entries[i].cwe)

\* C6: a raw severity that equals a key of the tool's table, letter case
\* ignored, gets the table's value for that key.
C6_ToolTableCaseInsensitive ==
    pc # "normalize" =>
        \A i \in DOMAIN csv_rows :
            LET T == ToolMapping(raw_output[i].tool)
                ks == {k \in DOMAIN T : Lower(k) = Lower(raw_output[i].severity)}
            IN \A k \in ks : csv_rows[i].severity = T[k]

GroupToolCount(k) == Cardinality({groups[k][m].tool : m \in DOMAIN groups[k]})

GroupInGroundTruth(k) ==
    \E e \in DOMAIN gt_entries :
        gt_entries[e].target = k[1] /\ gt_entries[e].cwe = k[2]

\* C8: (TP, high) with two or more tools, (TP, medium) with one tool and a
\* ground-truth entry of the group's (target, cwe), else (pending, low);
\* ground_truth_match is yes exactly when such an entry exists.
C8_ConsensusRules ==
    Classified =>
        /\ Len(results) = Cardinality(DOMAIN groups)
        /\ \A i \in DOMAIN results :
               LET k == SortKeys(DOMAIN groups)[i]
                   r == results[i]
               IN /\ r.target = k[1] /\ r.cwe = k[2]
                  /\ GroupToolCount(k) >= 2 =>
                         r.verdict = "TP" /\ r.confidence = "high"
                  /\ (GroupToolCount(k) = 1 /\ GroupInGroundTruth(k)) =>
                         r.verdict = "TP" /\ r.confidence = "medium"
                  /\ (GroupToolCount(k) < 2 /\ ~GroupInGroundTruth(k)) =>
                         r.verdict = "pending" /\ r.confidence = "low"
                  /\ (r.ground_truth_match = "yes") <=> GroupInGroundTruth(k)
                  /\ r.ground_truth_match \in {"yes", "no"}

C8_Witness ==
    /\ Classified
    /\ \E i \in DOMAIN results :
           /\ results[i].tool_count = 2
           /\ results[i].ground_truth_match = "no"
           /\ results[i].verdict = "TP"
           /\ results[i].confidence = "high"
    /\ gt_entries # <<>>

\* C9: no row has verdict FP, in the results and in the written files, and
\* per target TP + pending is the number of groups of the target.
C9_NoAutoFP ==
    /\ Classified => \A i \in DOMAIN results : results[i].verdict \in {"TP", "pending"}
    /\ Written =>
           /\ \A s \in DOMAIN triage_dir :
                  \A i \in DOMAIN triage_dir[s] :
                      triage_dir[s][i].verdict \in {"TP", "pending"}
           /\ \A t \in {k[1] : k \in DOMAIN groups} :
                  /\ t \in DOMAIN stats
                  /\ AutoStem(t) \in DOMAIN triage_dir
                  /\ stats[t].tp + stats[t].pending =
                         Cardinality({k \in DOMAIN groups : k[1] = t})
                  /\ Len(triage_dir[AutoStem(t)]) =
                         Cardinality({k \in DOMAIN groups : k[1] = t})

C9_Witness ==
    /\ Written
    /\ \E t \in DOMAIN stats : stats[t].tp = 1 /\ stats[t].pending = 1

\* C10: every member of a group has the target and the CWE of the group's
\* key, so members of one group never differ in target or CWE.
C10_GroupsWithinTargetAndCwe ==
    Grouped =>
        \A k \in DOMAIN groups :
            \A a \in DOMAIN groups[k] :
                /\ groups[k][a].target = k[1]
                /\ groups[k][a].cwe = k[2]
                /\ findings[groups[k][a].id].target = k[1]
                /\ findings[groups[k][a].id].cwe = k[2]

C10_Witness ==
    /\ Grouped
    /\ \E k1, k2 \in DOMAIN groups :
           /\ k1[1] = k2[1]
           /\ k1[2] # k2[2]
           /\ locations_match(groups[k1][1].location, groups[k2][1].location)

\* The <<key, position>> pairs of all group members.
GroupMembers ==
    UNION {{<<k, m>> : m \in DOMAIN groups[k]} : k \in DOMAIN groups}

\* C11: the groups partition the loaded findings: no group is empty, every
\* finding is a member of exactly one group at exactly one position, every
\* member is a loaded finding, and a finding without a location is alone in
\* its group.
C11_GroupsPartitionFindings ==
    Grouped =>
        /\ \A k \in DOMAIN groups : groups[k] # <<>>
        /\ \A i \in DOMAIN findings :
               Cardinality({p \in GroupMembers : groups[p[1]][p[2]].id = i}) = 1
        /\ \A p \in GroupMembers :
               /\ groups[p[1]][p[2]].id \in DOMAIN findings
               /\ groups[p[1]][p[2]] = findings[groups[p[1]][p[2]].id]
               /\ groups[p[1]][p[2]].location = <<>> => Len(groups[p[1]]) = 1

C11_Witness ==
    /\ Grouped
    /\ Len(findings) = 3
    /\ \E k1, k2 \in DOMAIN groups :
           /\ Len(groups[k1]) = 2
           /\ Len(groups[k2]) = 1
           /\ groups[k2][1].location = <<>>

\* One finding per group, in group order, carrying the group's target, CWE
\* and representative location.
Representatives ==
    LET keys == SortKeys(DOMAIN groups)
    IN [i \in DOMAIN keys |->
           [groups[keys[i]][1] EXCEPT
               !.id = i, !.location = FirstLocation(groups[keys[i]])]]

\* C12: grouping the representatives of the groups merges no two of them:
\* it gives the same keys, each with one member.
C12_ClusteringIdempotent ==
    Grouped =>
        LET again == group_findings(Representatives)
        IN /\ DOMAIN again = DOMAIN groups
           /\ \A g \in DOMAIN again : Len(again[g]) = 1

C12_Witness ==
    /\ Grouped
    /\ \E k1, k2 \in DOMAIN groups :
           /\ k1 # k2
           /\ k1[1] = k2[1] /\ k1[2] = k2[2]
           /\ Len(groups[k1]) = 2
           /\ groups[k1][1].location # groups[k1][2].location
           /\ groups[k2][1].location # <<>>

\* C13: two findings of a bucket whose locations are both http(s) URLs are
\* grouped together iff the URLs' path components are equal, an empty path
\* included.
C13_UrlsMatchOnEqualPath ==
    Grouped =>
        \A i, j \in DOMAIN findings :
            (/\ i # j
             /\ SameBucket(i, j)
             /\ IsUrl(findings[i].location)
             /\ IsUrl(findings[j].location)) =>
                (SameGroup(i, j) <=>
                     UrlPath(findings[i].location) = UrlPath(findings[j].location))

\* The location without a trailing :line or :line:col.
StripLineCol(s) ==
    LET n == Len(s)
    IN IF /\ n >= 4
          /\ s[n] \in DigitTokens /\ s[n - 1] = ":"
          /\ s[n - 2] \in DigitTokens /\ s[n - 3] = ":"
       THEN SubSeq(s, 1, n - 4)
       ELSE IF n >= 2 /\ s[n] \in DigitTokens /\ s[n - 1] = ":"
       THEN SubSeq(s, 1, n - 2)
       ELSE s

\* The file basename of a location: of the path for a URL, after the
\* :line / :line:col suffix is removed.
SuffixFreeBasename(loc) ==
    Basename(StripLineCol(IF IsUrl(loc) THEN UrlPath(loc) ELSE loc))

\* C14: two findings of a bucket whose locations are not both URLs are
\* grouped together iff their basenames, :line / :line:col suffix removed,
\* are equal and non-empty; a finding without a location is grouped with
\* nothing.
C14_FilesMatchOnBasename ==
    Grouped =>
        \A i, j \in DOMAIN findings :
            (/\ i # j
             /\ SameBucket(i, j)
             /\ ~(IsUrl(findings[i].location) /\ IsUrl(findings[j].location))) =>
                (SameGroup(i, j) <=>
                     /\ SuffixFreeBasename(findings[i].location) # <<>>
                     /\ SuffixFreeBasename(findings[i].location) =
                            SuffixFreeBasename(findings[j].location))

\* v is n / d rounded to the nearest unit.
IsRounded(v, n, d) ==
    LET diff == v * d - n
    IN 2 * (IF diff < 0 THEN 0 - diff ELSE diff) <= d

\* C15: in every F-measure row precision is TP / (TP + FP), recall is
\* TP / (TP + FN) and f1 is 2PR / (P + R), to three decimals, each 0 when its
\* denominator is 0 (TP = 8, FP = 2, FN = 2 gives 0.8, 0.8, 0.8); no division
\* of the three calculations has a zero divisor, and the script ends with
\* status 0.
C15_MetricsDivisionsGuarded ==
    /\ \A i \in DOMAIN fmeasure :
           LET r == fmeasure[i]
           IN /\ r.tp >= 0 /\ r.fp >= 0 /\ r.fn >= 0
              /\ IF r.tp + r.fp = 0 THEN r.precision = 0
                 ELSE IsRounded(r.precision, 1000 * r.tp, r.tp + r.fp)
              /\ IF r.tp + r.fn = 0 THEN r.recall = 0
                 ELSE IsRounded(r.recall, 1000 * r.tp, r.tp + r.fn)
              /\ IF r.precision + r.recall = 0 THEN r.f1 = 0
                 ELSE IsRounded(r.f1, 2 * r.precision * r.recall,
                                r.precision + r.recall)
              /\ (r.tp = 8 /\ r.fp = 2 /\ r.fn = 2) =>
                     (r.precision = 800 /\ r.recall = 800 /\ r.f1 = 800)
    /\ \A i \in DOMAIN cwe_coverage :
           /\ cwe_coverage[i].coverage_pct # ZeroDivisionError
           /\ cwe_coverage[i].coverage_pct \in 0..1000
    /\ \A i \in DOMAIN scorecard :
           /\ scorecard[i].avg_precision \in 0..1000
           /\ scorecard[i].avg_recall \in 0..1000
           /\ scorecard[i].avg_f1 \in 0..1000
    /\ (pc = "done" /\ ground_truth # EmptyMap) => metrics_exit = 0

C15_Witness ==
    /\ Calculated
    /\ \E i, j \in DOMAIN fmeasure :
           /\ fmeasure[i].tp = 8 /\ fmeasure[i].fp = 2 /\ fmeasure[i].fn = 2
           /\ fmeasure[i].f1 = 800
           /\ fmeasure[j].tp = 0 /\ fmeasure[j].fn = 0
           /\ fmeasure[j].recall = 0 /\ fmeasure[j].f1 = 0

\* C16: a ground-truth row counts as found, not as an FN, when the tool has
\* a TP group whose CWE is the row's CWE in canonical form, the form under
\* which the triage stage matched it.
C16_GroundTruthCweCanonicalInMetrics ==
    Calculated =>
        \A i \in DOMAIN fmeasure :
            fmeasure[i].fn =
                Cardinality({j \in DOMAIN gt_files[fmeasure[i].target] :
                                normalize_cwe(gt_files[fmeasure[i].target][j].cwe)
                                    \notin TpCwesOf(fmeasure[i])})

\* The targets whose ground truth has the CWE, and those of them on which
\* the tool has a TP with it.
TargetsWithCwe(cwe) ==
    {t \in DOMAIN gt_files :
        \E j \in DOMAIN gt_files[t] : Strip(gt_files[t][j].cwe) = cwe}

TargetsFound(tool, cwe) ==
    {t \in TargetsWithCwe(cwe) :
        /\ <<tool, t>> \in DOMAIN tool_findings
        /\ cwe \in tool_findings[<<tool, t>>].tp_cwes}

\* C17: a coverage row counts targets: total_in_ground_truth is the number
\* of targets whose ground truth has the CWE, found_count the number of
\* those on which the tool has a TP with it, coverage_pct their ratio.
C17_CoverageCountsTargets ==
    Calculated =>
        \A i \in DOMAIN cwe_coverage :
            LET c == cwe_coverage[i]
                total == Cardinality(TargetsWithCwe(c.cwe))
                found == Cardinality(TargetsFound(c.tool, c.cwe))
            IN /\ c.total_in_ground_truth = total
               /\ c.found_count = found
               /\ c.missed_count = total - found
               /\ IsRounded(c.coverage_pct, 1000 * found, total)

RECURSIVE SumOver(_, _)
\* The sum of the field over the F-measure rows at the positions in S.
SumOver(S, field) ==
    IF S = {} THEN 0
    ELSE LET i == CHOOSE x \in S : TRUE
         IN fmeasure[i][field] + SumOver(S \ {i}, field)

\* C18: a scorecard row holds the plain means, to three decimals, of the
\* precision, recall and f1 of the tool's F-measure rows, one row per target,
\* and targets_scanned is the number of those rows; every tool with a row
\* has a scorecard row.
C18_ScorecardMacroAverage ==
    Calculated =>
        /\ \A i \in DOMAIN fmeasure :
               \E j \in DOMAIN scorecard : scorecard[j].tool = fmeasure[i].tool
        /\ \A j \in DOMAIN scorecard :
               LET sc == scorecard[j]
                   rows == {i \in DOMAIN fmeasure : fmeasure[i].tool = sc.tool}
                   n == Cardinality(rows)
               IN /\ n > 0
                  /\ sc.targets_scanned = n
                  /\ Cardinality({fmeasure[i].target : i \in rows}) = n
                  /\ IsRounded(sc.avg_precision, SumOver(rows, "precision"), n)
                  /\ IsRounded(sc.avg_recall, SumOver(rows, "recall"), n)
                  /\ IsRounded(sc.avg_f1, SumOver(rows, "f1"), n)

C18_Witness ==
    /\ Calculated
    /\ \E j \in DOMAIN scorecard :
           /\ scorecard[j].targets_scanned = 2
           /\ scorecard[j].total_tp = 2
           /\ scorecard[j].total_fp = 1
           /\ scorecard[j].avg_precision = 750

\* The file load_triage_files has to read for target t.
PreferredStem(t) ==
    IF <<t, "-final">> \in DOMAIN triage_dir THEN <<t, "-final">> ELSE <<t, "-auto">>

\* C19: the loaded triage data has one entry per target with a triage
\* file, holding the rows of <target>-final.csv when that file exists and of
\* <target>-auto.csv otherwise; the counts credited on a target with a final
\* file are those of the final file's rows.
C19_FinalPreferredOverAuto ==
    /\ triage_data # EmptyMap =>
           /\ DOMAIN triage_data = {s[1] : s \in DOMAIN triage_dir}
           /\ \A t \in DOMAIN triage_data :
                  /\ Len(triage_data[t]) = Len(triage_dir[PreferredStem(t)])
                  /\ \A i \in DOMAIN triage_data[t] :
                         /\ triage_data[t][i].tools = triage_dir[PreferredStem(t)][i].tools
                         /\ triage_data[t][i].cwe = triage_dir[PreferredStem(t)][i].cwe
                         /\ triage_data[t][i].verdict =
                                triage_dir[PreferredStem(t)][i].verdict
                         /\ triage_data[t][i].confidence =
                                triage_dir[PreferredStem(t)][i].confidence
    /\ Extracted =>
           \A k \in DOMAIN tool_findings :
               <<k[2], "-final">> \in DOMAIN triage_dir =>
                   LET rows == triage_dir[<<k[2], "-final">>]
                       mine(v) == {i \in DOMAIN rows :
                                      /\ Upper(rows[i].verdict) = v
                                      /\ k[1] \in Range(RowTools(rows[i]))}
                   IN /\ tool_findings[k].tp = Cardinality(mine("TP"))
                      /\ tool_findings[k].fp = Cardinality(mine("FP"))

C19_Witness ==
    /\ Extracted
    /\ <<"vulnpy", "-final">> \in DOMAIN triage_dir
    /\ <<"vulnpy", "-auto">> \in DOMAIN triage_dir
    /\ \E i \in DOMAIN triage_dir[<<"vulnpy", "-auto">>] :
           /\ triage_dir[<<"vulnpy", "-auto">>][i].verdict = "TP"
           /\ triage_dir[<<"vulnpy", "-auto">>][i].tools = <<"bandit">>
    /\ <<<<"bandit">>, "vulnpy">> \in DOMAIN tool_findings
    /\ tool_findings[<<<<"bandit">>, "vulnpy">>].tp = 0
    /\ tool_findings[<<<<"bandit">>, "vulnpy">>].fp = 1

\* The file holds the object its tool writes, with a string severity.
WellFormed(r) == r.shape = "object" /\ r.severity # NumberSeverity

\* C20: whatever the files hold, normalize-results ends without an
\* exception and the CSV it writes has the finding of every well-formed
\* file, also when another file is not JSON, is a JSON list or carries a
\* number as severity.
C20_MalformedFilesNeverAbort ==
    pc # "normalize" =>
        /\ normalize_exit = 0
        /\ \A i \in DOMAIN raw_output :
               WellFormed(raw_output[i]) =>
                   \E j \in DOMAIN csv_rows :
                       /\ csv_rows[j].tool = raw_output[i].tool
                       /\ csv_rows[j].raw_id = raw_output[i].raw_id

\* C21: a record without a severity gets severity INFO and a record without
\* a CWE gets the empty cwe, whatever the adapter.
C21_AbsentFieldsGetDefaults ==
    normalize_exit = 0 =>
        \A i \in DOMAIN csv_rows :
            /\ raw_output[i].severity = "" => csv_rows[i].severity = "INFO"
            /\ raw_output[i].cwes = <<>> => csv_rows[i].cwe = <<>>

\* Consecutive digits of a finding_id after its last hyphen, as a number.
IdNumber(id) ==
    LET k == CHOOSE i \in DOMAIN id :
                 id[i] = "-" /\ \A j \in DOMAIN id : id[j] = "-" => j <= i
        d == SubSeq(id, k + 1, Len(id))
        Val(t) == (CHOOSE n \in DOMAIN DecimalDigits : DecimalDigits[n] = t) - 1
    IN 100 * Val(d[1]) + 10 * Val(d[2]) + Val(d[3])

SamePair(i, j) ==
    csv_rows[i].tool = csv_rows[j].tool /\ csv_rows[i].target = csv_rows[j].target

\* C24: the finding ids of a (tool, target) pair are numbered 1, 2, ... in
\* the order of the rows, each id is the upper-cased tool and target and
\* three digits joined by hyphens, and no two rows share an id.
C24_FindingIdsConsecutiveAndUnique ==
    normalize_exit = 0 =>
        \A i \in DOMAIN csv_rows :
            LET id == csv_rows[i].finding_id
                before == {j \in 1..(i - 1) : SamePair(i, j)}
            IN /\ Len(id) >= 5
               /\ Len(SubSeq(id, Len(id) - 2, Len(id))) = 3
               /\ id[Len(id) - 3] = "-"
               /\ \A k \in DOMAIN id : id[k] = Upper(id[k])
               /\ IdNumber(id) = Cardinality(before) + 1
               /\ \A j \in DOMAIN csv_rows :
                      j # i => csv_rows[j].finding_id # id

C24_Witness ==
    /\ normalize_exit = 0
    /\ \E i, j, k \in DOMAIN csv_rows :
           /\ i < j /\ SamePair(i, j) /\ ~SamePair(i, k)
           /\ csv_rows[i].tool = "npm-audit" /\ csv_rows[i].target = "juice-shop"
           /\ csv_rows[k].tool = "npm-audit"
           /\ csv_rows[j].finding_id = <<"NPM", "AUDIT", "-", "JUICE", "-", "SHOP",
                                         "-", "0", "0", "2">>

RECURSIVE TotalRows(_)
\* The rows of all files of a loaded directory.
TotalRows(d) ==
    IF DOMAIN d = {} THEN 0
    ELSE LET t == CHOOSE x \in DOMAIN d : TRUE
         IN Len(d[t]) + TotalRows([u \in DOMAIN d \ {t} |-> d[u]])

TriageRowsLoaded == TotalRows(triage_data)

GtEntriesLoaded == TotalRows(ground_truth)

\* C22 as stated: a stage that has ended has a non-zero exit status exactly
\* when it loaded zero findings (triage rows) or zero ground-truth entries.
C22_NonZeroExitIffNoInput ==
    /\ triage_exit # -1 =>
           (triage_exit # 0 <=> (findings = <<>> \/ gt_entries = <<>>))
    /\ metrics_exit = 0 => (TriageRowsLoaded > 0 /\ GtEntriesLoaded > 0)
    /\ metrics_exit = 1 =>
           (Cardinality(DOMAIN triage_dir) = 0 \/ Cardinality(DOMAIN gt_files) = 0
            \/ TriageRowsLoaded = 0 \/ GtEntriesLoaded = 0)

\* C22 as amended: the triage stage ends with status 0 whatever it loaded,
\* early when there are no findings; the metrics stage ends with status 1
\* exactly when it found no triage file or no ground-truth file, and with
\* status 0 otherwise, also when the files it found have no rows.
C22_NonZeroExitOnlyWithoutFiles ==
    /\ triage_exit \in {-1, 0}
    /\ (triage_exit = 0 /\ findings = <<>>) => (groups = EmptyMap /\ stats = EmptyMap)
    /\ metrics_exit \in {-1, 0, 1}
    /\ metrics_exit = 1 <=>
           (/\ pc \in {"done", "validated"} /\ triage_exit = 0 /\ fmeasure = <<>>
            /\ \/ load_triage_files(triage_dir) = EmptyMap
               \/ fm_load_ground_truth(gt_files) = EmptyMap)
    /\ metrics_exit = 0 =>
           (DOMAIN triage_data # {} /\ DOMAIN ground_truth # {})

C22_Witness ==
    /\ triage_exit = 0 /\ findings = <<>>
    /\ metrics_exit = 0
    /\ TriageRowsLoaded = 0

\* C23: whenever the process stops, every <target>-auto.csv that exists
\* holds the complete rows of its target (no run starts with an auto file,
\* so there is no previous content to keep).
C23_TriageFilesNeverPartial ==
    \A s \in DOMAIN triage_dir :
        s[2] = "-auto" => triage_dir[s] = RowsOf(results, s[1])

NoCwe(f) == Strip(f.cwe) = <<>>

\* C28: the rows without a CWE are as many as the distinct (model, file,
\* tool, rule_id) of the findings without a CWE and each names one tool; the
\* rows with a CWE are as many as the distinct (model, file, CWE) of the
\* findings with a CWE; every finding's tool is in the tools of a row of its
\* model and file.
C28_DedupKeepsToolAndRuleApart ==
    pc = "validated" =>
        LET nocwe == {i \in DOMAIN raw_findings : NoCwe(raw_findings[i])}
            withcwe == DOMAIN raw_findings \ nocwe
        IN /\ Cardinality({k \in DOMAIN deduped : NoCwe(deduped[k])}) =
                  Cardinality({<<raw_findings[i].model, raw_findings[i].file,
                                 raw_findings[i].tool, raw_findings[i].rule_id>> :
                                   i \in nocwe})
           /\ \A k \in DOMAIN deduped :
                  NoCwe(deduped[k]) => Len(Split(deduped[k].tools, ", ")) = 1
           /\ Cardinality({k \in DOMAIN deduped : ~NoCwe(deduped[k])}) =
                  Cardinality({<<raw_findings[i].model, raw_findings[i].file,
                                 Strip(raw_findings[i].cwe)>> : i \in withcwe})
           /\ \A i \in DOMAIN raw_findings :
                  \E k \in DOMAIN deduped :
                      /\ deduped[k].model = raw_findings[i].model
                      /\ deduped[k].file = raw_findings[i].file
                      /\ raw_findings[i].tool \in Range(Split(deduped[k].tools, ", "))

\* The claimed order, lowest first; any other label ranks with "unknown".
ClaimedOrder == <<"info", "low", "medium", "high", "critical">>

ClaimedRank(sev) ==
    IF \E n \in DOMAIN ClaimedOrder : ClaimedOrder[n] = sev
    THEN CHOOSE n \in DOMAIN ClaimedOrder : ClaimedOrder[n] = sev
    ELSE 0

IsMaximumSeverity(s, sevs) ==
    /\ \A j \in DOMAIN sevs : ClaimedRank(sevs[j]) <= ClaimedRank(s)
    /\ s # "unknown" => \E j \in DOMAIN sevs : sevs[j] = s
    /\ s = "unknown" <=> \A j \in DOMAIN sevs : ClaimedRank(sevs[j]) = 0

\* Severity labels of a normalized CSV, recognised or not.
LoadedSeverities ==
    {"critical", "high", "medium", "low", "info", "unknown", "bogus"}

\* C25: the severity of every triage row is the maximum of its group's
\* member severities: a member has it, no member ranks higher, and it is
\* "unknown" only when no member's severity is recognised; the same for
\* highest_severity on every list of up to two labels.
C25_GroupSeverityIsMaximum ==
    /\ Classified =>
           LET keys == SortKeys(DOMAIN groups)
           IN \A i \in DOMAIN results :
                  IsMaximumSeverity(
                      results[i].severity,
                      [j \in DOMAIN groups[keys[i]] |-> groups[keys[i]][j].severity])
    /\ pc = "triage_classified" =>
           \A sevs \in SeqUpTo(LoadedSeverities, 2) \ {<<>>} :
               IsMaximumSeverity(highest_severity(sevs), sevs)

C25_Witness ==
    /\ Classified
    /\ \E i \in DOMAIN results :
           LET cluster == groups[SortKeys(DOMAIN groups)[i]]
           IN /\ Len(cluster) >= 2
              /\ cluster[1].severity = "medium"
              /\ cluster[2].severity = "high"
              /\ results[i].severity = "high"

TargetsReported(tool) ==
    {t \in DOMAIN triage_data \cap DOMAIN ground_truth :
        \E i \in DOMAIN triage_data[t] :
            tool \in Range(RowTools(triage_data[t][i]))}

\* C27: every tool named in a triage row of a target that has ground truth
\* has an F-measure row for that target, with tp, fp and precision 0 when
\* none of its rows there is TP or FP, and its scorecard row counts every
\* such target in targets_scanned.
C27_PendingOnlyToolScored ==
    Calculated =>
        \A t \in DOMAIN triage_data \cap DOMAIN ground_truth :
            \A i \in DOMAIN triage_data[t] :
                \A a \in Range(RowTools(triage_data[t][i])) :
                    /\ \E k \in DOMAIN fmeasure :
                           /\ fmeasure[k].tool = a
                           /\ fmeasure[k].target = t
                           /\ (\A j \in DOMAIN triage_data[t] :
                                   a \in Range(RowTools(triage_data[t][j])) =>
                                       Upper(triage_data[t][j].verdict) \notin {"TP", "FP"})
                                  => /\ fmeasure[k].tp = 0
                                     /\ fmeasure[k].fp = 0
                                     /\ fmeasure[k].precision = 0
                    /\ \E n \in DOMAIN scorecard :
                           /\ scorecard[n].tool = a
                           /\ scorecard[n].targets_scanned =
                                  Cardinality(TargetsReported(a))

\* The triage directory holds consensus output only.
OnlyAutoFiles == \A st \in DOMAIN triage_dir : st[2] = "-auto"

\* C29: when only -auto.csv files are read, every (tool, target) entry of
\* extract_tool_findings has tp >= 1 and fp = 0, and every F-measure row has
\* precision 1.0.
C29_AutoOnlyPrecisionOne ==
    (Extracted /\ OnlyAutoFiles) =>
        /\ \A k \in DOMAIN tool_findings :
               tool_findings[k].tp >= 1 /\ tool_findings[k].fp = 0
        /\ Calculated =>
               \A i \in DOMAIN fmeasure :
                   /\ fmeasure[i].tp + fmeasure[i].fp > 0
                   /\ fmeasure[i].precision = 1000

\* A run on consensus output with a TP row and a pending row, and an
\* F-measure row.
C29_Witness ==
    /\ Calculated /\ OnlyAutoFiles
    /\ fmeasure # <<>>
    /\ \E t \in DOMAIN triage_data :
           \E i, j \in DOMAIN triage_data[t] :
               /\ triage_data[t][i].verdict = "TP"
               /\ triage_data[t][j].verdict = "pending"

\* The list without its p-th element.
Without(fs, p) == SubSeq(fs, 1, p - 1) \o SubSeq(fs, p + 1, Len(fs))

\* The verdict of the group that holds the finding with this id when fs is
\* grouped and triaged against the loaded ground truth.
VerdictOf(fs, id) ==
    LET g == group_findings(fs)
        keys == SortKeys(DOMAIN g)
        rows == triage_groups(g, build_gt_index(gt_entries))
        i == CHOOSE n \in DOMAIN keys :
                 \E j \in DOMAIN g[keys[n]] : g[keys[n]][j].id = id
    IN rows[i].verdict

\* C30: a finding that is in a TP group when the list is triaged without
\* one of its findings is in a TP group when the full list is triaged.
C30_MoreEvidenceKeepsTp ==
    pc = "triage_classified" =>
        \A p \in DOMAIN findings :
            \A q \in DOMAIN findings \ {p} :
                VerdictOf(Without(findings, p), findings[q].id) = "TP"
                    => VerdictOf(findings, findings[q].id) = "TP"

====
